---- MODULE Spec2Model ----
(***************************************************************************)
(* Link validation and repair tools (src/work): URLValidator.validate_url, *)
(* LinkChecker.check_link, ContentFetcher.fetch_content,                   *)
(* LinkFinder.extract_links, LinkFinder.find_best_match,                   *)
(* LinkResearcher.research_and_validate, LinkChecker.process,              *)
(* CompleteAnalyzer.process and CSVProcessor.process_tool, each as a state *)
(* machine over an HTTP transport and a completion service whose answers   *)
(* (a status code, a text or a raised exception) are chosen                *)
(* nondeterministically.                                                   *)
(*                                                                         *)
(* Strings are sequences of one-character strings, so that formatting a    *)
(* status code into a label, stripping whitespace and truncating a message *)
(* are computed, not assumed.                                              *)
(***************************************************************************)
EXTENDS Integers, Sequences, FiniteSets, TLC

VARIABLES
    pc,            \* position of the running call
    url,           \* the call's url argument
    sent,          \* requests issued so far: <<[method, outcome]>>
    response,      \* status code of the last response bound to `response` (0: none)
    result,        \* (is_valid, status_message) returned by validate_url / check_link
    content,       \* Optional[str] returned by fetch_content
    propagated,    \* TRUE when an exception left the call
    html_content,  \* extract_links: the hrefs of the page's <a href> tags, in order
    base_url,      \* extract_links: base URL
    links,         \* extract_links: `links`
    seen,          \* extract_links: `seen`
    unique_links,  \* extract_links: `unique_links`
    args,          \* find_best_match / _find_replacement_link: the call's arguments
    probes,        \* validate_url calls of the running repair: <<[url, valid, score]>>
    selected,      \* find_best_match / _find_replacement_link: the returned value
    row,           \* research_and_validate: the record, a function of its field names
    original_row,  \* research_and_validate: `original_row`
    homepage,      \* research_and_validate: `homepage`
    guesses,       \* validate_url calls of _find_alternative_homepage: <<[url, valid]>>
    found_links,   \* research_and_validate: `found_links`
    field_idx,     \* research_and_validate: number of fields[1:] already handled
    checks,        \* validate_url calls on the record's own fields: <<[field, url, valid, status]>>
    changes_made,  \* research_and_validate: `changes_made`
    details,       \* research_and_validate: `details`
    returned,      \* research_and_validate: the returned dictionary
    idx,           \* process: index of the next row of the processing range
    output_rows,   \* process / process_tool: `output_rows`
    writes,        \* process: the rows of each write of the output file, in order
    calls,         \* requests sent to the completion service, in order
    col_idx        \* process_tool: `col_idx` (-1: not yet bound)

vars == <<pc, url, sent, response, result, content, propagated,
          html_content, base_url, links, seen, unique_links,
          args, probes, selected,
          row, original_row, homepage, guesses, found_links, field_idx,
          checks, changes_made, details, returned,
          idx, output_rows, writes, calls, col_idx>>

(***************************************************************************)
(* Bounds of the model.                                                    *)
(***************************************************************************)
MaxUrlLen == 1
MaxMsgLen == 16
MaxAnchors == 3
MaxLinks == 2
MaxRows == 2

\* str(e)[:15]
ErrTruncLen == 15

(***************************************************************************)
(* Strings.                                                                *)
(***************************************************************************)
DigitChars == <<"0", "1", "2", "3", "4", "5", "6", "7", "8", "9">>

\* str(n) / f"{n}" for a non-negative integer
RECURSIVE Str(_)
Str(n) == IF n < 10 THEN <<DigitChars[n + 1]>>
          ELSE Str(n \div 10) \o <<DigitChars[(n % 10) + 1]>>

\* s[:n]
Truncate(s, n) == SubSeq(s, 1, IF Len(s) < n THEN Len(s) ELSE n)

StartsWith(s, p) == Len(p) <= Len(s) /\ SubSeq(s, 1, Len(p)) = p

\* p in s (substring)
Contains(s, p) == \E i \in 0..(Len(s) - Len(p)) : SubSeq(s, i + 1, i + Len(p)) = p

Whitespace == {" ", "\t"}

\* str.strip()
RECURSIVE LStrip(_)
LStrip(s) == IF s # <<>> /\ Head(s) \in Whitespace THEN LStrip(Tail(s)) ELSE s

RECURSIVE RStrip(_)
RStrip(s) == IF s # <<>> /\ s[Len(s)] \in Whitespace
             THEN RStrip(SubSeq(s, 1, Len(s) - 1)) ELSE s

Strip(s) == RStrip(LStrip(s))

SeqsUpTo(S, n) == UNION {[1..k -> S] : k \in 0..n}

UrlChars == {" ", "\t", "h"}
Urls == SeqsUpTo(UrlChars, MaxUrlLen)

(***************************************************************************)
(* The transport: a request answers with a response carrying a status      *)
(* code, or raises.                                                        *)
(***************************************************************************)
StatusCodes == 100..599

ExcKinds == {"ReadTimeout", "ConnectTimeout", "ConnectionError",
             "TooManyRedirects", "InvalidURL", "UnicodeError"}

\* The classes an exception is an instance of (requests.exceptions).
ExcClasses(kind) ==
    CASE kind = "ReadTimeout" -> {"Timeout", "RequestException", "Exception"}
      [] kind = "ConnectTimeout" ->
            {"ConnectionError", "Timeout", "RequestException", "Exception"}
      [] kind = "ConnectionError" -> {"ConnectionError", "RequestException", "Exception"}
      [] kind = "TooManyRedirects" -> {"TooManyRedirects", "RequestException", "Exception"}
      [] kind = "InvalidURL" -> {"RequestException", "Exception"}
      [] kind = "UnicodeError" -> {"Exception"}

\* str(e): messages of every length up to MaxMsgLen
ExcMsgs == {[i \in 1..n |-> "e"] : n \in 0..MaxMsgLen}

Bodies == {<<>>, <<"<", "a", ">">>}

\* What a request can do: answer with a status code and a body, or raise.
OutcomesWith(bodies) ==
    [kind : {"status"}, code : StatusCodes, msg : {<<>>}, text : bodies]
    \cup [kind : ExcKinds, code : {0}, msg : ExcMsgs, text : {<<>>}]

\* A probe never reads the body.
Outcomes == OutcomesWith({<<>>})

IsResponse(o) == o.kind = "status"

\* The first except clause of `handlers` that catches exception `kind` (0: none).
Catch(handlers, kind) ==
    IF \E i \in 1..Len(handlers) : handlers[i] \in ExcClasses(kind)
    THEN CHOOSE i \in 1..Len(handlers) :
            /\ handlers[i] \in ExcClasses(kind)
            /\ \A j \in 1..(i - 1) : handlers[j] \notin ExcClasses(kind)
    ELSE 0

NoResult == [valid |-> FALSE, label |-> <<>>]
NoContent == [none |-> TRUE, text |-> <<>>]

Ret(valid, label) == [valid |-> valid, label |-> label]

(***************************************************************************)
(* URLValidator.validate_url (src/work/utils.py)                           *)
(***************************************************************************)
S_EmptyURL == <<"E", "m", "p", "t", "y", " ", "U", "R", "L">>
S_HTTP == <<"H", "T", "T", "P", " ">>
S_ViaGET == <<" ", "(", "v", "i", "a", " ", "G", "E", "T", ")">>
S_Forbidden == <<" ", "F", "o", "r", "b", "i", "d", "d", "e", "n">>
S_Timeout == <<"T", "i", "m", "e", "o", "u", "t">>
S_ConnectionError ==
    <<"C", "o", "n", "n", "e", "c", "t", "i", "o", "n", " ", "E", "r", "r", "o", "r">>
S_TooManyRedirects ==
    <<"T", "o", "o", " ", "M", "a", "n", "y", " ", "R", "e", "d", "i", "r", "e", "c", "t", "s">>
S_RequestError ==
    <<"R", "e", "q", "u", "e", "s", "t", " ", "E", "r", "r", "o", "r", ":", " ">>
S_Error == <<"E", "r", "r", "o", "r", ":", " ">>

\* Mutant of IsEmptyUrl: only `not url`, the strip() test forgotten.
IsEmptyUrlNoStrip(u) == u = <<>>

\* `not url or url.strip() == ""`
IsEmptyUrl(u) == u = <<>> \/ Strip(u) = <<>>

\* Mutant of ValidateClassify: the success range written `< 500`, so that
\* client errors count as reachable.
ValidateClassifyWide(code) ==
    IF 200 <= code /\ code < 500
    THEN [retry |-> FALSE, ret |-> [valid |-> TRUE, label |-> <<"H", "T", "T", "P", " ">> \o Str(code)]]
    ELSE [retry |-> FALSE, ret |-> [valid |-> FALSE, label |-> <<"H", "T", "T", "P", " ">> \o Str(code)]]

\* The if/elif chain on response.status_code after the HEAD/GET probes:
\* a returned pair, or the 403 branch that probes again.
ValidateClassify(code) ==
    IF code = 200 THEN [retry |-> FALSE, ret |-> Ret(TRUE, S_HTTP \o Str(code))]
    ELSE IF 200 <= code /\ code < 300
         THEN [retry |-> FALSE, ret |-> Ret(TRUE, S_HTTP \o Str(code))]
    ELSE IF code = 403 THEN [retry |-> TRUE, ret |-> NoResult]
    ELSE [retry |-> FALSE, ret |-> Ret(FALSE, S_HTTP \o Str(code))]

\* The 403 branch after its GET answered with `code`.
ValidateRetryResult(code) ==
    IF code = 200 THEN Ret(TRUE, S_HTTP \o Str(code) \o S_ViaGET)
    ELSE Ret(FALSE, S_HTTP \o Str(code) \o S_Forbidden)

\* The except clauses of the outer try, in order.
ValidateHandlers ==
    <<"Timeout", "ConnectionError", "TooManyRedirects", "RequestException", "Exception">>

ValidateHandlerLabel(i, msg) ==
    CASE i = 1 -> S_Timeout
      [] i = 2 -> S_ConnectionError
      [] i = 3 -> S_TooManyRedirects
      [] i = 4 -> S_RequestError \o msg
      [] i = 5 -> S_Error \o msg

\* An exception raised inside the outer try: classified by the first matching
\* except clause, or leaving the call when none matches.
ValidateRaise(o) ==
    LET i == Catch(ValidateHandlers, o.kind) IN
    /\ pc' = "done"
    /\ IF i = 0
       THEN propagated' = TRUE /\ result' = result
       ELSE propagated' = propagated /\ result' = Ret(FALSE, ValidateHandlerLabel(i, o.msg))
    /\ response' = response

\* The response of the HEAD or first GET probe goes through the status chain.
ValidateAfterProbe(code) ==
    /\ response' = code
    /\ propagated' = propagated
    /\ IF ValidateClassify(code).retry
       THEN pc' = "get_retry" /\ result' = result
       ELSE pc' = "done" /\ result' = ValidateClassify(code).ret

\* Mutant of HeadNeedsGet: GET issued after every HEAD response.
HeadNeedsGetAlways(code) == code >= 100

\* Whether the HEAD response makes validate_url fall back to GET.
HeadNeedsGet(code) == code >= 400

Request(method, o) == [method |-> method, outcome |-> o]

NoArgs == [fn |-> "", links |-> <<>>, keywords |-> <<>>, prefer_domain |-> "",
           field_name |-> "", current_url |-> "", base_url |-> ""]
NoSelection == [none |-> TRUE, link |-> ""]

\* No record, nothing returned
NoRow == <<>>
NoReturn == [returned |-> FALSE, changed |-> FALSE, summary |-> ""]

UnchangedBatch == UNCHANGED <<idx, output_rows, writes, calls, col_idx>>

InitBatchIdle ==
    /\ idx = 0
    /\ output_rows = <<>>
    /\ writes = <<>>
    /\ calls = <<>>
    /\ col_idx = -1

UnchangedResearch ==
    UNCHANGED <<row, original_row, homepage, guesses, found_links, field_idx,
                checks, changes_made, details, returned>>

InitResearchIdle ==
    /\ row = NoRow
    /\ original_row = NoRow
    /\ homepage = ""
    /\ guesses = <<>>
    /\ found_links = <<>>
    /\ field_idx = 0
    /\ checks = <<>>
    /\ changes_made = <<>>
    /\ details = <<>>
    /\ returned = NoReturn

UnchangedSelect == UNCHANGED <<args, probes, selected>>

InitSelectIdle == args = NoArgs /\ probes = <<>> /\ selected = NoSelection

UnchangedExtract == UNCHANGED <<html_content, base_url, links, seen, unique_links>>

ValidateCall ==
    /\ pc = "start"
    /\ IF IsEmptyUrl(url)
       THEN pc' = "done" /\ result' = Ret(FALSE, S_EmptyURL)
       ELSE pc' = "head" /\ result' = result
    /\ UNCHANGED <<url, sent, response, content, propagated>>
    /\ UnchangedExtract
    /\ UnchangedSelect
    /\ UnchangedResearch
    /\ UnchangedBatch

ValidateHead ==
    /\ pc = "head"
    /\ \E o \in Outcomes :
        /\ sent' = Append(sent, Request("HEAD", o))
        /\ IF IsResponse(o)
           THEN IF HeadNeedsGet(o.code)
                THEN /\ pc' = "get"
                     /\ response' = o.code
                     /\ UNCHANGED <<result, propagated>>
                ELSE ValidateAfterProbe(o.code)
           ELSE ValidateRaise(o)
    /\ UNCHANGED <<url, content>>
    /\ UnchangedExtract
    /\ UnchangedSelect
    /\ UnchangedResearch
    /\ UnchangedBatch

ValidateGet ==
    /\ pc = "get"
    /\ \E o \in Outcomes :
        /\ sent' = Append(sent, Request("GET", o))
        /\ IF IsResponse(o) THEN ValidateAfterProbe(o.code) ELSE ValidateRaise(o)
    /\ UNCHANGED <<url, content>>
    /\ UnchangedExtract
    /\ UnchangedSelect
    /\ UnchangedResearch
    /\ UnchangedBatch

\* The GET of the 403 branch; its own bare except swallows every exception.
ValidateGetRetry ==
    /\ pc = "get_retry"
    /\ \E o \in Outcomes :
        /\ sent' = Append(sent, Request("GET", o))
        /\ response' = IF IsResponse(o) THEN o.code ELSE response
        /\ result' = ValidateRetryResult(response')
    /\ pc' = "done"
    /\ UNCHANGED <<url, content, propagated>>
    /\ UnchangedExtract
    /\ UnchangedSelect
    /\ UnchangedResearch
    /\ UnchangedBatch

InitCall ==
    /\ pc = "start"
    /\ url \in Urls
    /\ sent = <<>>
    /\ response = 0
    /\ result = NoResult
    /\ content = NoContent
    /\ propagated = FALSE
    /\ html_content = <<>>
    /\ base_url = <<>>
    /\ links = <<>>
    /\ seen = {}
    /\ unique_links = <<>>
    /\ InitSelectIdle
    /\ InitResearchIdle
    /\ InitBatchIdle

NextValidate == ValidateCall \/ ValidateHead \/ ValidateGet \/ ValidateGetRetry

SpecValidate == InitCall /\ [][NextValidate]_vars

(***************************************************************************)
(* Properties of validate_url (checked under SpecValidate).                *)
(***************************************************************************)
Last(s) == s[Len(s)]

\* The status of the last response validate_url received, when its last
\* request was answered (0 otherwise).
LastStatus ==
    IF sent # <<>> /\ IsResponse(Last(sent).outcome) THEN Last(sent).outcome.code ELSE 0

OnlyWhitespace(u) == \A i \in 1..Len(u) : u[i] \in Whitespace

ServerErrors == 500..599

\* C1: whenever the final status observed is 403, 429 or in 500-599,
\* validate_url returns reachable.
C1_BlockedLimitedServerErrorReachable ==
    (pc = "done" /\ LastStatus \in ({403, 429} \cup ServerErrors)) => result.valid

\* C2: whenever the status of the response validate_url ends with is 404 or
\* 410, on every path of HEAD and GET answers, the verdict is unreachable.
C2_NotFoundGoneUnreachable ==
    (pc = "done" /\ response \in {404, 410}) => (~result.valid /\ ~propagated)

\* C2 witness: a call that ended on a 410 answered to the GET of the 403 branch.
C2_Witness ==
    /\ pc = "done"
    /\ Len(sent) = 3
    /\ LastStatus = 410
    /\ ~result.valid

\* C3: for every final status in 200-299 validate_url returns reachable and
\* the label contains the status code.
C3_SuccessReachableWithCode ==
    (pc = "done" /\ LastStatus \in 200..299) =>
        (result.valid /\ Contains(result.label, Str(LastStatus)))

\* C4: an empty or whitespace-only url returns (False, "Empty URL") and no
\* request is ever issued for it.
C4_EmptyUrlNoRequest ==
    OnlyWhitespace(url) =>
        /\ sent = <<>>
        /\ pc \in {"start", "done"}
        /\ pc = "done" => (result = Ret(FALSE, S_EmptyURL) /\ ~propagated)

\* C4 witness: a whitespace-only, non-empty url has returned.
C4_Witness ==
    /\ pc = "done"
    /\ url # <<>>
    /\ OnlyWhitespace(url)
    /\ result.label = S_EmptyURL

\* C5: HEAD is the first request, and an unreachable verdict after a HEAD
\* that answered >= 400 or that raised is preceded by a GET.
C5_HeadThenGetBeforeGivingUp ==
    /\ sent # <<>> => sent[1].method = "HEAD"
    /\ (/\ pc = "done"
        /\ sent # <<>>
        /\ ~result.valid
        /\ (~IsResponse(sent[1].outcome) \/ sent[1].outcome.code >= 400))
       => (Len(sent) >= 2 /\ sent[2].method = "GET")

TimeoutKinds == {"ReadTimeout", "ConnectTimeout"}

\* C6: no exception leaves validate_url, and a call whose last request raised
\* returns the label of the failure: "Timeout", "Connection Error",
\* "Too Many Redirects", or "Error: " and a message cut to ErrTruncLen.
C6_FailuresClassified ==
    /\ ~propagated
    /\ (pc = "done" /\ sent # <<>> /\ ~IsResponse(Last(sent).outcome)) =>
        LET k == Last(sent).outcome.kind IN
        /\ ~result.valid
        /\ k \in TimeoutKinds => result.label = S_Timeout
        /\ k = "ConnectionError" => result.label = S_ConnectionError
        /\ k = "TooManyRedirects" => result.label = S_TooManyRedirects
        /\ k \in {"InvalidURL", "UnicodeError"} =>
              /\ StartsWith(result.label, S_Error)
              /\ Len(result.label) <= Len(S_Error) + ErrTruncLen

(***************************************************************************)
(* LinkChecker.check_link (src/work/link_checker.py)                       *)
(* A code point outside ASCII is written as one element, "U+xxxx".         *)
(***************************************************************************)
L_Empty == <<"U+26A0", "U+FE0F", " ", "E", "m", "p", "t", "y">>
L_ValidHTTP == <<"U+2705", " ", "V", "a", "l", "i", "d", " ", "(", "H", "T", "T", "P", " ">>
L_Close == <<")">>
L_Blocked ==
    <<"U+2705", " ", "V", "a", "l", "i", "d", " ", "(", "H", "T", "T", "P", " ", "4", "0", "3",
      " ", "-", " ", "b", "l", "o", "c", "k", "e", "d", ")">>
L_RateLimited ==
    <<"U+2705", " ", "V", "a", "l", "i", "d", " ", "(", "r", "a", "t", "e", " ",
      "l", "i", "m", "i", "t", "e", "d", ")">>
L_Redirect ==
    <<"U+2705", " ", "V", "a", "l", "i", "d", " ", "(", "r", "e", "d", "i", "r", "e", "c", "t", " ">>
L_NotFound ==
    <<"U+274C", " ", "N", "o", "t", " ", "f", "o", "u", "n", "d", " ",
      "(", "H", "T", "T", "P", " ", "4", "0", "4", ")">>
L_Gone == <<"U+274C", " ", "G", "o", "n", "e", " ", "(", "H", "T", "T", "P", " ", "4", "1", "0", ")">>
L_ServerError ==
    <<"U+26A0", "U+FE0F", " ", "S", "e", "r", "v", "e", "r", " ", "e", "r", "r", "o", "r", " ",
      "(", "H", "T", "T", "P", " ">>
L_Error == <<"U+274C", " ", "E", "r", "r", "o", "r", " ", "(", "H", "T", "T", "P", " ">>
L_Timeout == <<"U+274C", " ", "T", "i", "m", "e", "o", "u", "t">>
L_NoConnection ==
    <<"U+274C", " ", "N", "o", " ", "c", "o", "n", "n", "e", "c", "t", "i", "o", "n">>
L_ErrorColon == <<"U+274C", " ", "E", "r", "r", "o", "r", ":", " ">>

\* `not url or not url.strip()`
CheckLinkIsEmpty(u) == u = <<>> \/ Strip(u) = <<>>

\* Mutant of CheckLinkClassify: the stricter policy, where a server error
\* counts as a broken link.
CheckLinkClassifyStrict(code) ==
    IF 200 <= code /\ code < 300
    THEN [valid |-> TRUE, label |-> L_ValidHTTP \o Str(code) \o L_Close]
    ELSE IF code = 403 THEN [valid |-> TRUE, label |-> L_Blocked]
    ELSE IF code = 429 THEN [valid |-> TRUE, label |-> L_RateLimited]
    ELSE IF 300 <= code /\ code < 400
         THEN [valid |-> TRUE, label |-> L_Redirect \o Str(code) \o L_Close]
    ELSE IF code = 404 THEN [valid |-> FALSE, label |-> L_NotFound]
    ELSE IF code = 410 THEN [valid |-> FALSE, label |-> L_Gone]
    ELSE [valid |-> FALSE, label |-> L_Error \o Str(code) \o L_Close]

\* The if/elif chain on the HEAD response's status code.
CheckLinkClassify(code) ==
    IF 200 <= code /\ code < 300 THEN Ret(TRUE, L_ValidHTTP \o Str(code) \o L_Close)
    ELSE IF code = 403 THEN Ret(TRUE, L_Blocked)
    ELSE IF code = 429 THEN Ret(TRUE, L_RateLimited)
    ELSE IF 300 <= code /\ code < 400 THEN Ret(TRUE, L_Redirect \o Str(code) \o L_Close)
    ELSE IF code = 404 THEN Ret(FALSE, L_NotFound)
    ELSE IF code = 410 THEN Ret(FALSE, L_Gone)
    ELSE IF code >= 500 THEN Ret(TRUE, L_ServerError \o Str(code) \o L_Close)
    ELSE Ret(FALSE, L_Error \o Str(code) \o L_Close)

CheckLinkHandlers == <<"Timeout", "ConnectionError", "Exception">>

CheckLinkHandlerLabel(i, msg) ==
    CASE i = 1 -> L_Timeout
      [] i = 2 -> L_NoConnection
      [] i = 3 -> L_ErrorColon \o Truncate(msg, ErrTruncLen)

CheckLinkCall ==
    /\ pc = "start"
    /\ IF CheckLinkIsEmpty(url)
       THEN pc' = "done" /\ result' = Ret(FALSE, L_Empty)
       ELSE pc' = "head" /\ result' = result
    /\ UNCHANGED <<url, sent, response, content, propagated>>
    /\ UnchangedExtract
    /\ UnchangedSelect
    /\ UnchangedResearch
    /\ UnchangedBatch

CheckLinkHead ==
    /\ pc = "head"
    /\ \E o \in Outcomes :
        /\ sent' = Append(sent, Request("HEAD", o))
        /\ IF IsResponse(o)
           THEN /\ response' = o.code
                /\ result' = CheckLinkClassify(o.code)
                /\ propagated' = propagated
           ELSE LET i == Catch(CheckLinkHandlers, o.kind) IN
                /\ response' = response
                /\ IF i = 0
                   THEN propagated' = TRUE /\ result' = result
                   ELSE /\ propagated' = propagated
                        /\ result' = Ret(FALSE, CheckLinkHandlerLabel(i, o.msg))
    /\ pc' = "done"
    /\ UNCHANGED <<url, content>>
    /\ UnchangedExtract
    /\ UnchangedSelect
    /\ UnchangedResearch
    /\ UnchangedBatch

NextCheckLink == CheckLinkCall \/ CheckLinkHead

SpecCheckLink == InitCall /\ [][NextCheckLink]_vars

\* C7: check_link classifies every HEAD status in 200-599 by the policy:
\* 2xx, 3xx, 403, 429 and 5xx reachable, 404, 410 and the other 4xx
\* unreachable, with the code in the label for 2xx, 3xx and 5xx.
C7_CheckLinkPolicy ==
    (pc = "done" /\ LastStatus \in 200..599) =>
        LET c == LastStatus IN
        /\ result.valid <=> (c \in 200..399 \/ c \in {403, 429} \/ c \in ServerErrors)
        /\ (c \in 200..399 \/ c \in ServerErrors) => Contains(result.label, Str(c))
        /\ ~propagated

\* C7 witness: a 5xx answer was classified reachable with its code in the label.
C7_Witness ==
    /\ pc = "done"
    /\ LastStatus = 503
    /\ result.valid
    /\ Contains(result.label, <<"5", "0", "3">>)

(***************************************************************************)
(* ContentFetcher.fetch_content (src/work/utils.py)                        *)
(***************************************************************************)
FetchOutcomes == OutcomesWith(Bodies)

\* Mutant of FetchHandlers: only the requests exceptions are caught.
FetchHandlersRequestsOnly == <<"RequestException">>

\* The except clause of fetch_content.
FetchHandlers == <<"Exception">>

\* `if response.status_code == 200: return response.text else: return None`
FetchReturn(o) ==
    IF o.code = 200 THEN [none |-> FALSE, text |-> o.text] ELSE NoContent

\* fetch_content: one GET inside a try that catches Exception.
FetchContent ==
    /\ pc = "start"
    /\ \E o \in FetchOutcomes :
        /\ sent' = Append(sent, Request("GET", o))
        /\ IF IsResponse(o)
           THEN /\ response' = o.code
                /\ content' = FetchReturn(o)
                /\ propagated' = propagated
           ELSE /\ response' = response
                /\ content' = NoContent
                /\ propagated' = (Catch(FetchHandlers, o.kind) = 0)
    /\ pc' = "done"
    /\ UNCHANGED <<url, result>>
    /\ UnchangedExtract
    /\ UnchangedSelect
    /\ UnchangedResearch
    /\ UnchangedBatch

NextFetch == FetchContent

SpecFetch == InitCall /\ [][NextFetch]_vars

\* C8: fetch_content returns the body for every status in 200-299 and None
\* for every other status.
C8_BodyOnEverySuccessStatus ==
    (pc = "done" /\ LastStatus # 0) =>
        IF LastStatus \in 200..299
        THEN content = [none |-> FALSE, text |-> Last(sent).outcome.text]
        ELSE content.none

\* C9: fetch_content never raises and issues exactly one GET per call; a
\* transport failure on it yields None, with no further request.
C9_SingleGetNeverRaises ==
    /\ ~propagated
    /\ Len(sent) <= 1
    /\ pc = "done" =>
        /\ Len(sent) = 1
        /\ sent[1].method = "GET"
        /\ ~IsResponse(sent[1].outcome) => content.none

\* C9 witness: the GET raised an exception that is no requests exception,
\* and the call returned None.
C9_Witness ==
    /\ pc = "done"
    /\ sent # <<>>
    /\ Last(sent).outcome.kind = "UnicodeError"
    /\ content.none

(***************************************************************************)
(* LinkFinder.extract_links (src/work/utils.py)                            *)
(*                                                                         *)
(* A URL string is a sequence of tokens: the delimiters ":", "//", "/",    *)
(* "#" and the text between them, so "https://x.com/privacy" is            *)
(* <<"https", ":", "//", "x.com", "/", "privacy">>.  Two strings are equal *)
(* exactly when their token sequences are.  Hrefs carry no query, no       *)
(* parameters and no "." or ".." segment.  A netloc with an unmatched "["  *)
(* makes urlsplit, and so urljoin, raise ValueError("Invalid IPv6 URL").    *)
(***************************************************************************)
Delims == {":", "//", "/", "#"}

\* The href attribute values a page can hold.
Hrefs ==
    { <<"/", "privacy">>,
      <<"privacy">>,
      <<"https", ":", "//", "x.com", "/", "privacy">>,
      <<"//", "x.com", "/", "privacy">>,
      <<"#", "top">>,
      <<>>,
      <<"mailto", ":", "a@x.com">>,
      <<"javascript", ":", "void(0)">>,
      <<"http", ":", "//", "y.com", "/", "legal">>,
      <<"https", ":", "//", "x.com", "/", "privacy", "#">>,
      <<"//", "[">> }

\* An <a> tag: with an href attribute, or without one.
Anchors == {[has_href |-> TRUE, href |-> h] : h \in Hrefs}
           \cup {[has_href |-> FALSE, href |-> <<>>]}

BaseUrls ==
    { <<"https", ":", "//", "x.com", "/">>,
      <<"https", ":", "//", "x.com", "/", "docs", "/", "index">> }

\* Index of the first "#" of t (0: none)
FragPos(t) ==
    IF \E i \in 1..Len(t) : t[i] = "#"
    THEN CHOOSE i \in 1..Len(t) : t[i] = "#" /\ \A j \in 1..(i - 1) : t[j] # "#"
    ELSE 0

\* urlparse(url, default_scheme)
UrlParse(t, default_scheme) ==
    LET hasScheme == Len(t) >= 2 /\ t[2] = ":" /\ t[1] \notin Delims
        afterScheme == IF hasScheme THEN SubSeq(t, 3, Len(t)) ELSE t
        hasNet == afterScheme # <<>> /\ afterScheme[1] = "//"
        netloc == IF hasNet /\ Len(afterScheme) >= 2 /\ afterScheme[2] \notin Delims
                  THEN afterScheme[2] ELSE ""
        afterNet == IF ~hasNet THEN afterScheme
                    ELSE IF netloc # "" THEN SubSeq(afterScheme, 3, Len(afterScheme))
                    ELSE SubSeq(afterScheme, 2, Len(afterScheme))
        f == FragPos(afterNet)
    IN  [scheme |-> IF hasScheme THEN t[1] ELSE default_scheme,
         netloc |-> netloc,
         path |-> IF f = 0 THEN afterNet ELSE SubSeq(afterNet, 1, f - 1),
         fragment |-> IF f = 0 THEN <<>> ELSE SubSeq(afterNet, f + 1, Len(afterNet))]

UsesNetloc == {"", "http", "https", "ftp"}
UsesRelative == {"", "http", "https", "ftp"}

\* urlunparse
UrlUnparse(u) ==
    LET path == IF u.netloc # "" /\ u.path # <<>> /\ u.path[1] # "/"
                THEN <<"/">> \o u.path ELSE u.path
        withNet == IF u.netloc # "" \/ (u.scheme # "" /\ u.scheme \in UsesNetloc)
                   THEN <<"//", u.netloc>> \o path ELSE path
        withScheme == IF u.scheme # "" THEN <<u.scheme, ":">> \o withNet ELSE withNet
    IN  IF u.fragment # <<>> THEN withScheme \o <<"#">> \o u.fragment ELSE withScheme

\* The base path up to and including its last "/"
RECURSIVE DirOf(_)
DirOf(path) ==
    IF path = <<>> \/ path[Len(path)] = "/" THEN path
    ELSE DirOf(SubSeq(path, 1, Len(path) - 1))

\* Netlocs urlsplit rejects
BadNetlocs == {"[", "]"}

\* urljoin(base, url) raises ValueError
UrlJoinRaises(base, t) ==
    base # <<>> /\ t # <<>> /\ UrlParse(t, "").netloc \in BadNetlocs

\* Mutant of UrlJoin: the href appended to the base.
UrlJoinConcat(base, t) == base \o t

\* urljoin(base, url)
UrlJoin(base, t) ==
    IF base = <<>> THEN t
    ELSE IF t = <<>> THEN base
    ELSE
      LET b == UrlParse(base, "")
          u == UrlParse(t, b.scheme)
      IN  IF u.scheme # b.scheme \/ u.scheme \notin UsesRelative THEN t
          ELSE IF u.scheme \in UsesNetloc /\ u.netloc # "" THEN UrlUnparse(u)
          ELSE IF u.path = <<>>
               THEN UrlUnparse([u EXCEPT !.netloc = b.netloc, !.path = b.path])
          ELSE IF u.path[1] = "/"
               THEN UrlUnparse([u EXCEPT !.netloc = b.netloc])
          ELSE UrlUnparse([u EXCEPT !.netloc = b.netloc,
                                    !.path = IF DirOf(b.path) = <<>>
                                             THEN <<"/">> \o u.path
                                             ELSE DirOf(b.path) \o u.path])

\* absolute_url.startswith(("http://", "https://"))
IsHttpUrl(t) ==
    StartsWith(t, <<"http", ":", "//">>) \/ StartsWith(t, <<"https", ":", "//">>)

\* The first loop: every <a href> resolved against base, the http(s) ones kept.
RECURSIVE ResolveAnchors(_, _)
ResolveAnchors(anchors, base) ==
    IF anchors = <<>> THEN <<>>
    ELSE LET a == Head(anchors)
             rest == ResolveAnchors(Tail(anchors), base)
         IN  IF a.has_href /\ IsHttpUrl(UrlJoin(base, a.href))
             THEN <<UrlJoin(base, a.href)>> \o rest
             ELSE rest

\* Mutant of RemoveDuplicates: the `link not in seen` test dropped.
KeepDuplicates(ls, sn, acc) == [seen |-> sn \cup {ls[i] : i \in 1..Len(ls)}, unique |-> acc \o ls]

\* The second loop: "Remove duplicates while preserving order"
RECURSIVE RemoveDuplicates(_, _, _)
RemoveDuplicates(ls, sn, acc) ==
    IF ls = <<>> THEN [seen |-> sn, unique |-> acc]
    ELSE IF Head(ls) \notin sn
         THEN RemoveDuplicates(Tail(ls), sn \cup {Head(ls)}, Append(acc, Head(ls)))
         ELSE RemoveDuplicates(Tail(ls), sn, acc)

UnchangedCall == UNCHANGED <<url, sent, response, result, content, propagated>>

\* Some <a href> of the page makes urljoin raise; extract_links catches nothing.
ExtractRaises(anchors, base) ==
    \E i \in 1..Len(anchors) : anchors[i].has_href /\ UrlJoinRaises(base, anchors[i].href)

ExtractResolve ==
    /\ pc = "start"
    /\ IF ExtractRaises(html_content, base_url)
       THEN pc' = "raised" /\ propagated' = TRUE /\ links' = links
       ELSE /\ pc' = "dedupe"
            /\ propagated' = propagated
            /\ links' = ResolveAnchors(html_content, base_url)
    /\ UNCHANGED <<html_content, base_url, seen, unique_links>>
    /\ UNCHANGED <<url, sent, response, result, content>>
    /\ UnchangedSelect
    /\ UnchangedResearch
    /\ UnchangedBatch

ExtractDedupe ==
    /\ pc = "dedupe"
    /\ seen' = RemoveDuplicates(links, {}, <<>>).seen
    /\ unique_links' = RemoveDuplicates(links, {}, <<>>).unique
    /\ pc' = "done"
    /\ UNCHANGED <<html_content, base_url, links>>
    /\ UnchangedCall
    /\ UnchangedSelect
    /\ UnchangedResearch
    /\ UnchangedBatch

InitExtract ==
    /\ pc = "start"
    /\ url = <<>>
    /\ sent = <<>>
    /\ response = 0
    /\ result = NoResult
    /\ content = NoContent
    /\ propagated = FALSE
    /\ html_content \in SeqsUpTo(Anchors, MaxAnchors)
    /\ base_url \in BaseUrls
    /\ links = <<>>
    /\ seen = {}
    /\ unique_links = <<>>
    /\ InitSelectIdle
    /\ InitResearchIdle
    /\ InitBatchIdle

NextExtract == ExtractResolve \/ ExtractDedupe

SpecExtract == InitExtract /\ [][NextExtract]_vars

\* Index of the first occurrence of x in s
FirstIndex(s, x) == CHOOSE i \in 1..Len(s) : s[i] = x /\ \A j \in 1..(i - 1) : s[j] # x

\* C10: extract_links returns no duplicate, and its elements are the
\* resolved anchors in the order of their first occurrence.
C10_UniqueInFirstOccurrenceOrder ==
    pc = "done" =>
        /\ \A i, j \in 1..Len(unique_links) : i # j => unique_links[i] # unique_links[j]
        /\ {unique_links[i] : i \in 1..Len(unique_links)} = {links[i] : i \in 1..Len(links)}
        /\ \A i, j \in 1..Len(unique_links) :
              i < j => FirstIndex(links, unique_links[i]) < FirstIndex(links, unique_links[j])

\* C10 witness: two different hrefs resolved to one URL, returned once, after
\* another link.
C10_Witness ==
    /\ pc = "done"
    /\ Len(unique_links) = 2
    /\ Len(links) = 3
    /\ links[1] = links[3]
    /\ \E i, j \in 1..Len(html_content) :
          /\ i # j
          /\ html_content[i].href # html_content[j].href
          /\ UrlJoin(base_url, html_content[i].href) = UrlJoin(base_url, html_content[j].href)

\* The hrefs the claim says are discarded
IsMailto(h) == StartsWith(h, <<"mailto", ":">>)
IsJavascript(h) == StartsWith(h, <<"javascript", ":">>)
IsFragmentOnly(h) == h # <<>> /\ h[1] = "#"
Discarded(h) == IsMailto(h) \/ IsJavascript(h) \/ IsFragmentOnly(h)

\* C11: every returned link is an http or https URL, and no returned link
\* comes only from anchors whose href is mailto:, javascript: or fragment-only.
C11_OnlyHttpNoMailtoJsFragment ==
    pc = "done" =>
        \A k \in 1..Len(unique_links) :
            /\ IsHttpUrl(unique_links[k])
            /\ \E i \in 1..Len(html_content) :
                  /\ html_content[i].has_href
                  /\ ~Discarded(html_content[i].href)
                  /\ UrlJoin(base_url, html_content[i].href) = unique_links[k]

HasEmptyFragment(h) == h # <<>> /\ h[Len(h)] = "#"

IndexPage == <<"https", ":", "//", "x.com", "/">>

AsAnchors(ls) == [i \in 1..Len(ls) |-> [has_href |-> TRUE, href |-> ls[i]]]

\* C12 as stated: "/privacy" against "https://x.com/" gives
\* "https://x.com/privacy", and every href that is an absolute http(s) URL is
\* returned unchanged.
C12_AbsoluteHrefUnchanged ==
    pc = "done" =>
        \A i \in 1..Len(html_content) :
            LET h == html_content[i].href IN
            /\ (html_content[i].has_href /\ h = <<"/", "privacy">> /\ base_url = IndexPage)
                  => \E k \in 1..Len(unique_links) :
                        unique_links[k] = <<"https", ":", "//", "x.com", "/", "privacy">>
            /\ (html_content[i].has_href /\ IsHttpUrl(h))
                  => \E k \in 1..Len(unique_links) : unique_links[k] = h

\* C12 amended: as above, but an absolute http(s) href keeps its text only
\* when it carries no empty fragment (urljoin drops a trailing "#"); and
\* extracting from a page made of the returned links returns them again.
C12_ResolvedAndIdempotent ==
    pc = "done" =>
        /\ \A i \in 1..Len(html_content) :
            LET h == html_content[i].href IN
            /\ (html_content[i].has_href /\ h = <<"/", "privacy">> /\ base_url = IndexPage)
                  => \E k \in 1..Len(unique_links) :
                        unique_links[k] = <<"https", ":", "//", "x.com", "/", "privacy">>
            /\ (html_content[i].has_href /\ IsHttpUrl(h) /\ ~HasEmptyFragment(h))
                  => \E k \in 1..Len(unique_links) : unique_links[k] = h
        /\ ~ExtractRaises(AsAnchors(unique_links), base_url)
        /\ RemoveDuplicates(ResolveAnchors(AsAnchors(unique_links), base_url), {}, <<>>).unique
              = unique_links

\* C12 witness: a page holding the relative href "/privacy" and an absolute
\* http href of another host was extracted against "https://x.com/".
C12_Witness ==
    /\ pc = "done"
    /\ base_url = IndexPage
    /\ \E i, j \in 1..Len(html_content) :
          /\ html_content[i] = [has_href |-> TRUE, href |-> <<"/", "privacy">>]
          /\ html_content[j] = [has_href |-> TRUE, href |-> <<"http", ":", "//", "y.com", "/", "legal">>]
    /\ Len(unique_links) = 2

(***************************************************************************)
(* LinkFinder.find_best_match (src/work/utils.py) and                      *)
(* LinkResearcher._find_replacement_link (src/work/link_researcher.py)     *)
(*                                                                         *)
(* Links and keywords are strings.  find_best_match subtracts              *)
(* len(link) / 100 from an integer: scores are kept multiplied by 100,     *)
(* which orders them as the floats are ordered.                            *)
(***************************************************************************)
UpperLetters == "ABCDEFGHIJKLMNOPQRSTUVWXYZ"
LowerLetters == "abcdefghijklmnopqrstuvwxyz"

CharAt(str, i) == SubSeq(str, i, i)

LowerChar(c) ==
    IF \E i \in 1..Len(UpperLetters) : CharAt(UpperLetters, i) = c
    THEN CharAt(LowerLetters, CHOOSE i \in 1..Len(UpperLetters) : CharAt(UpperLetters, i) = c)
    ELSE c

\* str.lower()
RECURSIVE Lower(_)
Lower(str) ==
    IF Len(str) = 0 THEN ""
    ELSE LowerChar(CharAt(str, 1)) \o Lower(SubSeq(str, 2, Len(str)))

\* str.split(sep) for a one-character sep
RECURSIVE Split(_, _)
Split(str, sep) ==
    IF \E i \in 1..Len(str) : CharAt(str, i) = sep
    THEN LET i == CHOOSE i \in 1..Len(str) :
                    CharAt(str, i) = sep /\ \A j \in 1..(i - 1) : CharAt(str, j) # sep
         IN  <<SubSeq(str, 1, i - 1)>> \o Split(SubSeq(str, i + 1, Len(str)), sep)
    ELSE <<str>>

RECURSIVE SumSeq(_)
SumSeq(ns) == IF ns = <<>> THEN 0 ELSE Head(ns) + SumSeq(Tail(ns))

\* The links a homepage can hold
CandidateLinks ==
    { "https://x.com/privacy-policy",
      "https://x.com/Privacy",
      "https://x.com/legal1",
      "https://x.com/legal2",
      "https://x.com/policy",
      "https://x.com/dpa",
      "https://x.com/avv-addendum",
      "https://y.com/about" }

\* Keyword lists given to find_best_match, in priority order
KeywordLists == { <<"privacy", "legal", "policy">>, <<"Policy", "legal">>, <<>> }

\* prefer_domain: None (written "") or a domain
PreferDomains == {"", "x.com"}

LinkFields == <<"Privacy/Legal Link", "DSGVO/GDPR Link", "Storage/Hosting Link", "DPA/AVV Link">>

\* keywords_map.get(field_name, [])
KeywordsMap(field_name) ==
    CASE field_name = "Privacy/Legal Link" -> <<"privacy", "legal", "policy">>
      [] field_name = "DSGVO/GDPR Link" -> <<"gdpr", "dsgvo", "privacy", "data-protection">>
      [] field_name = "Storage/Hosting Link" ->
            <<"security", "trust", "infrastructure", "hosting", "storage">>
      [] field_name = "DPA/AVV Link" -> <<"dpa", "avv", "data-processing", "addendum", "dpa">>
      [] OTHER -> <<>>

\* Mutant of KeywordWeight: priorities reversed.
KeywordWeightReversed(n, i) == (i + 1) * 10

\* `(len(keywords) - i) * 10`, i counted from 0
KeywordWeight(n, i) == (n - i) * 10

\* The score find_best_match gives a link, times 100.
BestMatchScore100(link, keywords, prefer_domain) ==
    LET n == Len(keywords)
        link_lower == Lower(link)
        points == [i \in 1..n |->
                      IF Contains(link_lower, Lower(keywords[i]))
                      THEN KeywordWeight(n, i - 1) ELSE 0]
        bonus == IF prefer_domain # "" /\ Contains(link, prefer_domain) THEN 50 ELSE 0
    IN  100 * (SumSeq(points) + bonus) - Len(link)

\* Mutant of UpdateBest: `>=`, so that the last of equal candidates wins.
UpdateBestOnTie(best, link, score) ==
    IF score >= best.score THEN [match |-> [none |-> FALSE, link |-> link], score |-> score]
    ELSE best

\* `if score > best_score: best_score = score; best_match = link`
UpdateBest(best, link, score) ==
    IF score > best.score THEN [match |-> [none |-> FALSE, link |-> link], score |-> score]
    ELSE best

\* best_match = None; best_score = 0
BestInit == [match |-> NoSelection, score |-> 0]

RECURSIVE BestMatchLoop(_, _, _, _)
BestMatchLoop(ls, keywords, prefer_domain, best) ==
    IF ls = <<>> THEN best
    ELSE BestMatchLoop(Tail(ls), keywords, prefer_domain,
                       UpdateBest(best, Head(ls),
                                  BestMatchScore100(Head(ls), keywords, prefer_domain)))

\* The score computed for every link of the loop, in order.
BestMatchProbes(ls, keywords, prefer_domain) ==
    [i \in 1..Len(ls) |->
        [url |-> ls[i], score |-> BestMatchScore100(ls[i], keywords, prefer_domain)]]

\* Mutant of FindBestMatchReturn: the best candidate returned whatever its score,
\* the running best starting below every score.
FindBestMatchNoThreshold(ls, keywords, prefer_domain) ==
    BestMatchLoop(ls, keywords, prefer_domain, [match |-> NoSelection, score |-> -1000000]).match

\* find_best_match: `return best_match if best_score > 0 else None`
FindBestMatchReturn(ls, keywords, prefer_domain) ==
    LET best == BestMatchLoop(ls, keywords, prefer_domain, BestInit)
    IN  IF best.score > 0 THEN best.match ELSE NoSelection

\* Mutant of ReplacementScore: an unreachable link keeps its keyword and
\* domain points.
ReplacementScoreKeepInvalid(link, keywords, base, valid) ==
    LET link_lower == Lower(link)
        points == [i \in 1..Len(keywords) |->
                      IF Contains(link_lower, keywords[i]) THEN 10 ELSE 0]
        same == IF Contains(link, Split(base, "/")[3]) THEN 5 ELSE 0
    IN  IF valid THEN SumSeq(points) + same + 20 ELSE SumSeq(points) + same

\* The score _find_replacement_link gives a link whose validation returned `valid`.
ReplacementScore(link, keywords, base, valid) ==
    LET link_lower == Lower(link)
        points == [i \in 1..Len(keywords) |->
                      IF Contains(link_lower, keywords[i]) THEN 10 ELSE 0]
        same == IF Contains(link, Split(base, "/")[3]) THEN 5 ELSE 0
    IN  IF valid THEN SumSeq(points) + same + 20 ELSE 0

\* The validate_url calls of the loop: every found link, in order.
ReplacementProbes(ls, keywords, base, v) ==
    [i \in 1..Len(ls) |->
        [url |-> ls[i], valid |-> v[i], score |-> ReplacementScore(ls[i], keywords, base, v[i])]]

RECURSIVE ReplacementLoop(_, _)
ReplacementLoop(ps, best) ==
    IF ps = <<>> THEN best
    ELSE ReplacementLoop(Tail(ps), UpdateBest(best, Head(ps).url, Head(ps).score))

\* `if best_score >= 20`
ReplacementThreshold == 20

\* _find_replacement_link with validations answering v: the returned string.
FindReplacementLink(field_name, current_url, ls, base, v) ==
    LET best == ReplacementLoop(ReplacementProbes(ls, KeywordsMap(field_name), base, v), BestInit)
    IN  IF best.score >= ReplacementThreshold THEN best.match.link ELSE current_url

\* The calls made: find_best_match(links, keywords, prefer_domain) or
\* _find_replacement_link(field_name, current_url, found_links, base_url)
SelectArgs ==
    [fn : {"find_best_match"},
     links : SeqsUpTo(CandidateLinks, MaxLinks),
     keywords : KeywordLists,
     prefer_domain : PreferDomains,
     field_name : {""}, current_url : {""}, base_url : {""}]
    \cup
    [fn : {"_find_replacement_link"},
     links : SeqsUpTo(CandidateLinks, MaxLinks),
     keywords : {<<>>}, prefer_domain : {""},
     field_name : {LinkFields[i] : i \in 1..Len(LinkFields)},
     current_url : {"", "https://x.com/dpa"},
     base_url : {"https://x.com"}]

UnchangedAllCalls ==
    UNCHANGED <<url, sent, response, result, content, propagated,
                html_content, base_url, links, seen, unique_links>>

InitSelect ==
    /\ pc = "start"
    /\ url = <<>>
    /\ sent = <<>>
    /\ response = 0
    /\ result = NoResult
    /\ content = NoContent
    /\ propagated = FALSE
    /\ html_content = <<>>
    /\ base_url = <<>>
    /\ links = <<>>
    /\ seen = {}
    /\ unique_links = <<>>
    /\ args \in SelectArgs
    /\ probes = <<>>
    /\ selected = NoSelection
    /\ InitResearchIdle
    /\ InitBatchIdle

FindBestMatch ==
    /\ pc = "start"
    /\ args.fn = "find_best_match"
    /\ selected' = FindBestMatchReturn(args.links, args.keywords, args.prefer_domain)
    /\ probes' = BestMatchProbes(args.links, args.keywords, args.prefer_domain)
    /\ pc' = "best_match_done"
    /\ UNCHANGED args
    /\ UnchangedAllCalls
    /\ UnchangedResearch
    /\ UnchangedBatch

FindReplacement ==
    /\ pc = "start"
    /\ args.fn = "_find_replacement_link"
    /\ \E v \in [1..Len(args.links) -> BOOLEAN] :
        /\ probes' = ReplacementProbes(args.links, KeywordsMap(args.field_name), args.base_url, v)
        /\ selected' = [none |-> FALSE,
                        link |-> FindReplacementLink(args.field_name, args.current_url,
                                                     args.links, args.base_url, v)]
    /\ pc' = "replacement_done"
    /\ UNCHANGED args
    /\ UnchangedAllCalls
    /\ UnchangedResearch
    /\ UnchangedBatch

NextSelect == FindBestMatch \/ FindReplacement

SpecSelect == InitSelect /\ [][NextSelect]_vars

\* Indices (from 1) of the keywords found in link, whatever the letter case
KeywordsFound(link, keywords) ==
    {i \in 1..Len(keywords) : Contains(Lower(link), Lower(keywords[i]))}

RECURSIVE SumOver(_, _)
SumOver(S, f) ==
    IF S = {} THEN 0 ELSE LET x == CHOOSE x \in S : TRUE IN f[x] + SumOver(S \ {x}, f)

\* 50 when a preferred domain is given and occurs in link
DomainBonus(link, prefer_domain) ==
    IF prefer_domain # "" /\ Contains(link, prefer_domain) THEN 50 ELSE 0

\* Priority-weighted keyword points plus the domain bonus minus length/100,
\* times 100: the keyword at index i (from 0) of n is worth (n - i) * 10.
WeightedScore100(link, keywords, prefer_domain) ==
    LET n == Len(keywords)
        worth == [i \in 1..n |-> (n - (i - 1)) * 10]
    IN  100 * (SumOver(KeywordsFound(link, keywords), worth)
               + DomainBonus(link, prefer_domain)) - Len(link)

\* C14: find_best_match returns a candidate only if its score (weighted
\* keyword points, plus 50 for the preferred domain, minus length/100) is
\* strictly greater than 0, and returns None when no candidate scores above 0.
C14_BestMatchOnlyAboveZero ==
    pc = "best_match_done" =>
        /\ \A i \in 1..Len(probes) :
              probes[i].score = WeightedScore100(probes[i].url, args.keywords, args.prefer_domain)
        /\ ~selected.none =>
              \E i \in 1..Len(probes) : probes[i].url = selected.link /\ probes[i].score > 0
        /\ (\A i \in 1..Len(probes) : probes[i].score <= 0) => selected.none

\* C14 witness: a candidate is returned while another candidate of the same
\* call scores below 0.
C14_Witness ==
    /\ pc = "best_match_done"
    /\ ~selected.none
    /\ \E i \in 1..Len(probes) : probes[i].score < 0

\* The only keyword index found in link (0 when none or several are found)
OnlyKeyword(link, keywords) ==
    IF Cardinality(KeywordsFound(link, keywords)) = 1
    THEN CHOOSE i \in KeywordsFound(link, keywords) : TRUE
    ELSE 0

\* Two probes of equal length and equal domain bonus, each with exactly one
\* keyword, the i-th with the keyword of higher priority
PriorityPair(i, j) ==
    /\ Len(probes[i].url) = Len(probes[j].url)
    /\ DomainBonus(probes[i].url, args.prefer_domain) = DomainBonus(probes[j].url, args.prefer_domain)
    /\ OnlyKeyword(probes[i].url, args.keywords) # 0
    /\ OnlyKeyword(probes[j].url, args.keywords) # 0
    /\ OnlyKeyword(probes[i].url, args.keywords) < OnlyKeyword(probes[j].url, args.keywords)

\* C15: of two candidates of equal length and equal domain bonus that each
\* contain exactly one keyword, the one whose keyword has the lower priority
\* index scores greater than or equal to the other.
C15_MonotonicInPriority ==
    pc = "best_match_done" =>
        \A i, j \in 1..Len(probes) : PriorityPair(i, j) => probes[i].score >= probes[j].score

\* C15 witness: such a pair, met in the order lower priority first.
C15_Witness ==
    /\ pc = "best_match_done"
    /\ \E i, j \in 1..Len(probes) : j < i /\ PriorityPair(i, j) /\ probes[i].score > probes[j].score

\* The greatest score of the loop
MaxScore == CHOOSE m \in {probes[i].score : i \in 1..Len(probes)} :
                \A i \in 1..Len(probes) : probes[i].score <= m

\* The first position of the loop with the greatest score
FirstMax == CHOOSE i \in 1..Len(probes) :
                probes[i].score = MaxScore /\ \A j \in 1..(i - 1) : probes[j].score < MaxScore

\* C16: in find_best_match and in _find_replacement_link a candidate replaces
\* the running best only when its score is strictly greater: when a candidate
\* is selected it is the earliest of those with the greatest score.
C16_EarliestMaximumSelected ==
    /\ (pc = "best_match_done" /\ ~selected.none) => selected.link = probes[FirstMax].url
    /\ (pc = "replacement_done" /\ probes # <<>> /\ MaxScore >= 20) =>
           selected.link = probes[FirstMax].url

\* C16 witness: two different links reach the greatest score of a replacement
\* search and the earlier one is returned.
C16_Witness ==
    /\ pc = "replacement_done"
    /\ Len(probes) = 2
    /\ probes[1].url # probes[2].url
    /\ probes[1].score = probes[2].score
    /\ probes[1].score >= 20
    /\ selected.link = probes[1].url

\* The keyword set of each field
FieldKeywords(field_name) ==
    CASE field_name = "Privacy/Legal Link" -> {"privacy", "legal", "policy"}
      [] field_name = "DSGVO/GDPR Link" -> {"gdpr", "dsgvo", "privacy", "data-protection"}
      [] field_name = "Storage/Hosting Link" ->
            {"security", "trust", "infrastructure", "hosting", "storage"}
      [] field_name = "DPA/AVV Link" -> {"dpa", "avv", "data-processing", "addendum"}

\* C17: a reachable candidate of the field-repair scorer scores 10 for each
\* keyword of the field's set it contains, each keyword counted once, plus 5
\* on the homepage's domain, plus 20.
C17_EachKeywordOnce ==
    pc = "replacement_done" =>
        \A i \in 1..Len(probes) :
            probes[i].valid =>
                probes[i].score =
                    10 * Cardinality({k \in FieldKeywords(args.field_name) :
                                         Contains(Lower(probes[i].url), k)})
                    + (IF Contains(probes[i].url, "x.com") THEN 5 ELSE 0) + 20

(***************************************************************************)
(* LinkResearcher.research_and_validate (link_researcher.py:26-138) with   *)
(* _find_alternative_homepage (140-163) and _find_replacement_link.        *)
(* URLs are strings here; extract_links works on their token sequences.    *)
(***************************************************************************)

\* The text of a token sequence
RECURSIVE UrlStr(_)
UrlStr(t) == IF t = <<>> THEN "" ELSE Head(t) \o UrlStr(Tail(t))

DelimChars == {":", "/", "#"}

\* Length of the longest prefix of str without a delimiter
RECURSIVE WordLen(_)
WordLen(str) ==
    IF Len(str) = 0 \/ CharAt(str, 1) \in DelimChars THEN 0
    ELSE 1 + WordLen(SubSeq(str, 2, Len(str)))

\* The token sequence of a URL text
RECURSIVE UrlTokens(_)
UrlTokens(str) ==
    IF Len(str) = 0 THEN <<>>
    ELSE IF Len(str) >= 2 /\ SubSeq(str, 1, 2) = "//"
         THEN <<"//">> \o UrlTokens(SubSeq(str, 3, Len(str)))
    ELSE IF CharAt(str, 1) \in DelimChars
         THEN <<CharAt(str, 1)>> \o UrlTokens(SubSeq(str, 2, Len(str)))
    ELSE <<SubSeq(str, 1, WordLen(str))>>
         \o UrlTokens(SubSeq(str, WordLen(str) + 1, Len(str)))

\* str with every character of cs removed
RECURSIVE RemoveChars(_, _)
RemoveChars(str, cs) ==
    IF Len(str) = 0 THEN ""
    ELSE (IF CharAt(str, 1) \in cs THEN "" ELSE CharAt(str, 1))
         \o RemoveChars(SubSeq(str, 2, Len(str)), cs)

WhitespaceChars == {" ", "\t", "\n", "\r"}

\* `not url or not url.strip()`
IsBlank(u) == RemoveChars(u, WhitespaceChars) = ""

\* What validate_url returns for u, by the transport's answers: (False,
\* "Empty URL") for an empty or blank url, else reachable or unreachable.
ValidateResults(u) ==
    IF IsBlank(u) THEN {[valid |-> FALSE, status |-> "Empty URL"]}
    ELSE {[valid |-> TRUE, status |-> "HTTP 200"], [valid |-> FALSE, status |-> "HTTP 404"]}

\* tool_name.lower().replace(' ', '')
PatternStem(tool_name) == RemoveChars(Lower(tool_name), {" "})

\* patterns
Patterns(tool_name) ==
    LET n == PatternStem(tool_name)
    IN  << "https://www." \o n \o ".com",
           "https://" \o n \o ".ai",
           "https://" \o n \o ".io",
           "https://www." \o n \o ".ai" >>

NumPatterns == Len(Patterns(""))

\* Index of the first pattern validated reachable under the answers v (0: none)
FirstValid(v) ==
    IF \E i \in DOMAIN v : v[i]
    THEN CHOOSE i \in DOMAIN v : v[i] /\ \A j \in 1..(i - 1) : ~v[j]
    ELSE 0

\* The validate_url calls of _find_alternative_homepage, in order
AlternativeGuesses(tool_name, v) ==
    [i \in 1..(IF FirstValid(v) = 0 THEN Len(Patterns(tool_name)) ELSE FirstValid(v)) |->
        [url |-> Patterns(tool_name)[i], valid |-> v[i]]]

\* _find_alternative_homepage: the first reachable pattern, or ""
FindAlternativeHomepage(tool_name, v) ==
    IF FirstValid(v) = 0 THEN "" ELSE Patterns(tool_name)[FirstValid(v)]

\* extract_links(homepage_content, homepage)
ExtractLinks(page, base) ==
    LET unique == RemoveDuplicates(ResolveAnchors(page, UrlTokens(base)), {}, <<>>).unique
    IN  [i \in 1..Len(unique) |-> UrlStr(unique[i])]

RowKeys == {"Tool Name", "Homepage"} \cup {LinkFields[i] : i \in 1..Len(LinkFields)}

MakeRow(name, hp, privacy, gdpr, storage, dpa) ==
    [k \in RowKeys |->
        CASE k = "Tool Name" -> name
          [] k = "Homepage" -> hp
          [] k = "Privacy/Legal Link" -> privacy
          [] k = "DSGVO/GDPR Link" -> gdpr
          [] k = "Storage/Hosting Link" -> storage
          [] k = "DPA/AVV Link" -> dpa]

\* r without the field k
Without(r, k) == [f \in (DOMAIN r) \ {k} |-> r[f]]

\* The records given to research_and_validate
ResearchRows ==
    { MakeRow("My Tool", "https://x.com", "https://x.com/old", "https://x.com/gdpr",
              "https://x.com/hosting", "https://x.com/dpa"),
      MakeRow("My\tTool", "", "https://x.com/privacy-policy", "", "", ""),
      MakeRow("My Tool", "https://www.mytool.com", "", "", "", ""),
      Without(MakeRow("My Tool", "https://x.com", "", "", "", ""), "DPA/AVV Link"),
      Without(MakeRow("My Tool", "https://x.com", "", "", "", ""), "Homepage") }

\* The href values of the homepage's <a> tags
ResearchHrefs ==
    { <<"/", "privacy-policy">>,
      <<"https", ":", "//", "x.com", "/", "dpa">>,
      <<"//", "[">> }

\* The pages the transport answers with
ResearchPages == SeqsUpTo({[has_href |-> TRUE, href |-> h] : h \in ResearchHrefs}, MaxLinks)

UnchangedTransport ==
    UNCHANGED <<url, sent, response, result, content,
                html_content, base_url, links, seen, unique_links>>

InitResearch ==
    /\ pc = "research_start"
    /\ url = <<>>
    /\ sent = <<>>
    /\ response = 0
    /\ result = NoResult
    /\ content = NoContent
    /\ propagated = FALSE
    /\ html_content = <<>>
    /\ base_url = <<>>
    /\ links = <<>>
    /\ seen = {}
    /\ unique_links = <<>>
    /\ InitSelectIdle
    /\ row \in ResearchRows
    /\ original_row = row
    /\ homepage = ""
    /\ guesses = <<>>
    /\ found_links = <<>>
    /\ field_idx = 0
    /\ checks = <<>>
    /\ changes_made = <<>>
    /\ details = <<>>
    /\ returned = NoReturn
    /\ InitBatchIdle

\* str(n) for a natural number
RECURSIVE IntStr(_)
IntStr(n) ==
    IF n < 10 THEN CharAt("0123456789", n + 1)
    ELSE IntStr(n \div 10) \o CharAt("0123456789", (n % 10) + 1)

\* sep.join(strs)
RECURSIVE Join(_, _)
Join(strs, sep) ==
    IF strs = <<>> THEN ""
    ELSE IF Len(strs) = 1 THEN strs[1]
    ELSE strs[1] \o sep \o Join(Tail(strs), sep)

\* Mutant of Summary: the update text whatever was changed.
SummaryAlwaysUpdated(changes) ==
    "Updated " \o IntStr(Len(changes)) \o " field(s): " \o Join(changes, "; ")

\* Step 4: `summary`
Summary(changes) ==
    IF Len(changes) > 0
    THEN "Updated " \o IntStr(Len(changes)) \o " field(s): " \o Join(changes, "; ")
    ELSE "All links valid, no changes needed"

\* Mutant of UpdatedKey: the replacement written into the homepage field.
UpdatedKeyHomepage(field) == "Homepage"

\* The key assigned by `row[field] = replacement`
UpdatedKey(field) == field

\* A subscript on a missing key raises KeyError, which nothing catches.
ResearchRaise ==
    /\ pc' = "research_raised"
    /\ propagated' = TRUE

\* Step 1: validate the homepage, search an alternative when it is invalid.
ResearchCheckHomepage ==
    /\ pc = "research_start"
    /\ IF "Tool Name" \notin DOMAIN row \/ "Homepage" \notin DOMAIN row
       THEN /\ ResearchRaise
            /\ UNCHANGED <<row, homepage, guesses, checks, changes_made, details>>
       ELSE \E r \in ValidateResults(row["Homepage"]), v \in [1..NumPatterns -> BOOLEAN] :
            LET alt_homepage == FindAlternativeHomepage(row["Tool Name"], v)
                invalid == "Homepage invalid: " \o r.status
            IN  /\ checks' = Append(checks, [field |-> "Homepage", url |-> row["Homepage"],
                                             valid |-> r.valid, status |-> r.status])
                /\ IF r.valid
                   THEN /\ details' = Append(details, "Homepage valid: " \o r.status)
                        /\ homepage' = row["Homepage"]
                        /\ UNCHANGED <<row, guesses, changes_made>>
                   ELSE /\ guesses' = AlternativeGuesses(row["Tool Name"], v)
                        /\ IF alt_homepage # ""
                           THEN /\ row' = [row EXCEPT !["Homepage"] = alt_homepage]
                                /\ homepage' = alt_homepage
                                /\ changes_made' = Append(changes_made,
                                       "Updated homepage to " \o alt_homepage)
                                /\ details' = Append(details, invalid)
                           ELSE /\ details' = details \o
                                       <<invalid, "Could not find alternative homepage">>
                                /\ homepage' = row["Homepage"]
                                /\ UNCHANGED <<row, changes_made>>
                /\ pc' = "research_fetch"
                /\ propagated' = propagated
    /\ UNCHANGED <<original_row, found_links, field_idx, returned>>
    /\ UnchangedSelect
    /\ UnchangedTransport
    /\ UnchangedBatch

\* Step 2: fetch the homepage and extract its links.
ResearchFetch ==
    /\ pc = "research_fetch"
    /\ \/ /\ found_links' = <<>>
          /\ details' = Append(details, "Could not fetch homepage content")
          /\ pc' = "research_fields"
          /\ propagated' = propagated
       \/ /\ ~IsBlank(homepage)
          /\ \E page \in ResearchPages :
                IF ExtractRaises(page, UrlTokens(homepage))
                THEN ResearchRaise /\ UNCHANGED <<found_links, details>>
                ELSE /\ found_links' = ExtractLinks(page, homepage)
                     /\ pc' = "research_fields"
                     /\ UNCHANGED <<details, propagated>>
    /\ UNCHANGED <<row, original_row, homepage, guesses, field_idx, checks,
                   changes_made, returned>>
    /\ UnchangedSelect
    /\ UnchangedTransport
    /\ UnchangedBatch

\* Step 3, one turn of `for field in fields[1:]`.
ResearchCheckField ==
    /\ pc = "research_fields"
    /\ field_idx < Len(LinkFields)
    /\ LET field == LinkFields[field_idx + 1]
       IN  IF field \notin DOMAIN row
           THEN /\ ResearchRaise
                /\ UNCHANGED <<row, field_idx, checks, changes_made, details, probes>>
           ELSE \E r \in ValidateResults(row[field]), v \in [1..Len(found_links) -> BOOLEAN] :
                LET current_url == row[field]
                    replacement == FindReplacementLink(field, current_url, found_links, homepage, v)
                    invalid == field \o " invalid: " \o r.status
                IN  /\ checks' = Append(checks, [field |-> field, url |-> current_url,
                                                 valid |-> r.valid, status |-> r.status])
                    /\ IF r.valid
                       THEN /\ details' = Append(details, field \o " valid: " \o r.status)
                            /\ probes' = <<>>
                            /\ UNCHANGED <<row, changes_made>>
                       ELSE /\ probes' = ReplacementProbes(found_links, KeywordsMap(field),
                                                           homepage, v)
                            /\ IF replacement # "" /\ replacement # current_url
                               THEN /\ row' = [row EXCEPT ![UpdatedKey(field)] = replacement]
                                    /\ changes_made' = Append(changes_made,
                                           "Updated " \o field \o " to " \o replacement)
                                    /\ details' = Append(details, invalid)
                               ELSE /\ details' = details \o
                                           <<invalid, "Could not find replacement for " \o field>>
                                    /\ UNCHANGED <<row, changes_made>>
                    /\ field_idx' = field_idx + 1
                    /\ pc' = IF field_idx + 1 = Len(LinkFields)
                             THEN "research_summarize" ELSE "research_fields"
                    /\ propagated' = propagated
    /\ UNCHANGED <<original_row, homepage, guesses, found_links, returned>>
    /\ UNCHANGED <<args, selected>>
    /\ UnchangedTransport
    /\ UnchangedBatch

\* Step 4: the summary and the returned dictionary.
ResearchSummarize ==
    /\ pc = "research_summarize"
    /\ returned' = [returned |-> TRUE,
                    changed |-> Len(changes_made) > 0,
                    summary |-> Summary(changes_made)]
    /\ pc' = "research_returned"
    /\ UNCHANGED <<row, original_row, homepage, guesses, found_links, field_idx,
                   checks, changes_made, details, propagated>>
    /\ UnchangedSelect
    /\ UnchangedTransport
    /\ UnchangedBatch

NextResearch ==
    \/ ResearchCheckHomepage
    \/ ResearchFetch
    \/ ResearchCheckField
    \/ ResearchSummarize

SpecResearch == InitResearch /\ [][NextResearch]_vars

\* The field handled by the last turn of the loop
LastField == LinkFields[field_idx]

\* The last turn of the loop put a new value into its field
FieldReplaced ==
    /\ pc \in {"research_fields", "research_summarize"}
    /\ field_idx >= 1
    /\ LastField \in DOMAIN row
    /\ row[LastField] # original_row[LastField]

\* C13: a non-homepage field replaced by research_and_validate holds a
\* candidate that a validation of that repair attempt classified reachable
\* and whose score is at least 20; no candidate classified unreachable is
\* substituted.
C13_ReplacementValidated ==
    FieldReplaced =>
        /\ \E i \in 1..Len(probes) :
              probes[i].url = row[LastField] /\ probes[i].valid /\ probes[i].score >= 20
        /\ \A i \in 1..Len(probes) : probes[i].url = row[LastField] => probes[i].valid

\* C13 witness: a field is replaced by a reachable candidate while another
\* candidate of the same attempt was classified unreachable.
C13_Witness ==
    /\ FieldReplaced
    /\ \E i \in 1..Len(probes) : ~probes[i].valid
    /\ \E i \in 1..Len(probes) : probes[i].url = row[LastField] /\ probes[i].valid

\* The guesses for a name: lower-cased, all whitespace removed
GuessesFor(tool_name) ==
    LET n == RemoveChars(Lower(tool_name), WhitespaceChars)
    IN  << "https://www." \o n \o ".com",
           "https://" \o n \o ".ai",
           "https://" \o n \o ".io",
           "https://www." \o n \o ".ai" >>

\* The guesser ran exactly when the homepage was classified unreachable,
\* probed the guesses in order up to the first reachable one and returned it,
\* or returned nothing after probing all of them.
GuesserOrderAndResult ==
    pc = "research_fetch" =>
        /\ (guesses # <<>>) <=> ~checks[1].valid
        /\ \A i \in 1..(Len(guesses) - 1) : ~guesses[i].valid
        /\ guesses # <<>> =>
              IF guesses[Len(guesses)].valid
              THEN homepage = guesses[Len(guesses)].url /\ row["Homepage"] = homepage
              ELSE /\ Len(guesses) = 4
                   /\ row = original_row
                   /\ homepage = original_row["Homepage"]

\* C18: the homepage-alternative guesser derives its guesses from the tool
\* name lower-cased with all whitespace removed, validates them in one fixed
\* order, returns the first reachable guess without probing a later one and
\* returns "" when none is reachable; it runs whenever the homepage is empty
\* or unreachable.
C18_GuesserContract ==
    /\ GuesserOrderAndResult
    /\ pc = "research_fetch" =>
          \A i \in 1..Len(guesses) : guesses[i].url = GuessesFor(original_row["Tool Name"])[i]

\* The record holds a name and the five link fields
FullRecord == DOMAIN original_row = RowKeys

\* C19: for a record with a name and the five link fields the call never
\* ends by an exception, and when it returns, the homepage and then the four
\* other fields have each been validated once, in order.
C19_TerminalStateReached ==
    FullRecord =>
        /\ pc # "research_raised"
        /\ pc = "research_returned" =>
              /\ returned.returned
              /\ [i \in 1..Len(checks) |-> checks[i].field] = <<"Homepage">> \o LinkFields

\* C20: a record lacking one of the five link fields is handled as if the
\* field were the empty string: the call does not fail, and the validation of
\* the absent field is an "Empty URL".
C20_AbsentFieldTolerated ==
    (pc \in {"research_raised", "research_returned"} /\ ~FullRecord) =>
        /\ pc = "research_returned"
        /\ \A i \in 1..Len(checks) :
              checks[i].field \notin DOMAIN original_row =>
                  checks[i].url = "" /\ checks[i].status = "Empty URL"

\* Positions of `sent` holding a request of the given method
SentBy(method) == {i \in 1..Len(sent) : sent[i].method = method}

\* The request at position i was answered with a status satisfying P
AnsweredWith(i, codes) == IsResponse(sent[i].outcome) /\ sent[i].outcome.code \in codes

\* C30: one validate_url call issues at most one HEAD and at most two GET
\* requests, a GET only after the HEAD returned a status >= 400, and the
\* second GET only after the first GET returned 403.
C30_RequestBudget ==
    /\ Cardinality(SentBy("HEAD")) <= 1
    /\ Cardinality(SentBy("GET")) <= 2
    /\ SentBy("GET") # {} =>
          /\ SentBy("HEAD") = {1}
          /\ AnsweredWith(1, 400..599)
    /\ Cardinality(SentBy("GET")) = 2 =>
          /\ SentBy("GET") = {2, 3}
          /\ AnsweredWith(2, {403})

\* C30 witness: the HEAD answered 500, the first GET 403, and a second GET
\* was issued.
C30_Witness ==
    /\ pc = "done"
    /\ Len(sent) = 3
    /\ AnsweredWith(1, {500})
    /\ AnsweredWith(2, {403})
    /\ sent[3].method = "GET"

\* _get_changes(original, updated): the fields whose value differs
GetChanges(original, updated) ==
    {[field |-> k, old_value |-> original[k], new_value |-> updated[k]] :
        k \in {f \in DOMAIN original : original[f] # updated[f]}}

\* The candidates of the running repair that are reachable, on the homepage's
\* domain and hold a privacy keyword
ReachablePrivacyLinks ==
    {probes[i].url : i \in {j \in 1..Len(probes) :
        /\ probes[j].valid
        /\ Contains(probes[j].url, "x.com")
        /\ Contains(Lower(probes[j].url), "privacy")}}

\* C21: a Privacy/Legal Link answered 404, with a reachable same-domain
\* privacy link among the homepage's links, is replaced by that link;
\* changed is true and a returned detail string notes the old and the new
\* value of the field.
C21_ReplacementNoted ==
    /\ (/\ pc = "research_fields"
        /\ field_idx = 1
        /\ checks[2].status = "HTTP 404"
        /\ ReachablePrivacyLinks # {})
       => row["Privacy/Legal Link"] \in ReachablePrivacyLinks
    /\ (/\ pc = "research_returned"
        /\ FullRecord
        /\ row["Privacy/Legal Link"] # original_row["Privacy/Legal Link"])
       => /\ returned.changed
          /\ \E i \in 1..Len(details) :
                /\ Contains(details[i], original_row["Privacy/Legal Link"])
                /\ Contains(details[i], row["Privacy/Legal Link"])

\* C22: when the five link fields are all classified reachable the call
\* returns changed = false, the summary "All links valid, no changes needed"
\* and the record it was given.
C22_AllValidNoChange ==
    (pc = "research_returned" /\ \A i \in 1..Len(checks) : checks[i].valid) =>
        /\ ~returned.changed
        /\ returned.summary = "All links valid, no changes needed"
        /\ row = original_row

\* C22 witness: a returned call whose five validations all answered reachable.
C22_Witness ==
    /\ pc = "research_returned"
    /\ Len(checks) = 5
    /\ \A i \in 1..Len(checks) : checks[i].valid /\ checks[i].url # ""
    /\ ~returned.changed

\* The field k was classified unreachable in this run
ClassifiedUnreachable(k) == \E i \in 1..Len(checks) : checks[i].field = k /\ ~checks[i].valid

\* C26: research_and_validate changes a field only if it is one of the five
\* link fields and its value was classified unreachable in this run; a link
\* field classified reachable and every other field keep their value.
C26_OnlyUnreachableLinkFieldsChange ==
    pc \in {"research_fetch", "research_fields", "research_summarize", "research_returned"} =>
        \A k \in DOMAIN original_row :
            row[k] # original_row[k] =>
                /\ k \in {"Homepage"} \cup {LinkFields[i] : i \in 1..Len(LinkFields)}
                /\ ClassifiedUnreachable(k)

\* C26 witness: a returned record with one field replaced and another link
\* field, classified reachable, unchanged.
C26_Witness ==
    /\ pc = "research_returned"
    /\ row["Privacy/Legal Link"] # original_row["Privacy/Legal Link"]
    /\ ~ClassifiedUnreachable("Homepage")
    /\ ~ClassifiedUnreachable("DSGVO/GDPR Link")
    /\ row["DSGVO/GDPR Link"] = original_row["DSGVO/GDPR Link"]

\* C28: changed is true exactly when the returned record differs from the
\* original one, so that a log entry with changed = true has a non-empty
\* list of changes.
C28_ChangedIffRecordDiffers ==
    pc = "research_returned" =>
        /\ returned.changed <=> row # original_row
        /\ returned.changed => GetChanges(original_row, row) # {}

\* C29: the summary "All links valid, no changes needed" is returned only
\* when each of the five link fields was classified reachable.
C29_AllValidSummaryOnlyWhenAllValid ==
    (pc = "research_returned" /\ returned.summary = "All links valid, no changes needed") =>
        /\ Len(checks) = 5
        /\ \A i \in 1..Len(checks) : checks[i].valid

(***************************************************************************)
(* Content analysis: CompleteAnalyzer.analyze_with_ollama                  *)
(* (complete_analyzer.py:165-216), one cell of the content-analysis row    *)
(* (321-340) and OllamaAnalyzer.analyze_content                            *)
(* (complete_validator.py:132-183).  A content is represented by its       *)
(* length and by whether it holds only whitespace; "U+274C", "U+2705" and  *)
(* "U+26A0" stand for the glyphs of the labels.                            *)
(***************************************************************************)

\* chunk_size
ChunkSize == 4000

A_NoContent == "U+274C No content"
A_NoURL == "U+26A0 No URL"
A_Yes == "U+2705 Yes"
A_No == "U+274C No"

Contents ==
    { [len |-> 0, blank |-> TRUE],
      [len |-> 3, blank |-> TRUE],
      [len |-> 51, blank |-> FALSE],
      [len |-> 4000, blank |-> FALSE],
      [len |-> 4001, blank |-> FALSE] }

\* What CompleteAnalyzer.fetch_content returns: "" or more than 50 characters
\* of text
FetchedContents == {c \in Contents : c.len = 0 \/ (c.len > 50 /\ ~c.blank)}

\* `not content`
IsEmptyContent(c) == c.len = 0

\* len(chunks)
NumChunks(c) == (c.len + ChunkSize - 1) \div ChunkSize

\* What the completion service does with one request
OllamaAnswers == {"YES", "NO", "status 500", "exception"}

\* Index of the first chunk answered YES (0: none)
FirstYes(v) ==
    IF \E i \in DOMAIN v : v[i] = "YES"
    THEN CHOOSE i \in DOMAIN v : v[i] = "YES" /\ \A j \in 1..(i - 1) : v[j] # "YES"
    ELSE 0

\* The requests.post calls of the chunk loop, which breaks at the first YES
AnalyzePosts(link_type, c, v) ==
    [i \in 1..(IF FirstYes(v) = 0 THEN NumChunks(c) ELSE FirstYes(v)) |->
        [service |-> "POST /api/generate", link_type |-> link_type, chunk |-> i]]

\* analyze_with_ollama(link_type, content), the service answering v
AnalyzeWithOllama(link_type, c, v) ==
    IF IsEmptyContent(c) THEN [result |-> A_NoContent, calls |-> <<>>]
    ELSE [result |-> IF FirstYes(v) # 0 THEN A_Yes ELSE A_No,
          calls |-> AnalyzePosts(link_type, c, v)]

\* str.strip() of a text
RECURSIVE LStripStr(_)
LStripStr(str) ==
    IF Len(str) > 0 /\ CharAt(str, 1) \in WhitespaceChars
    THEN LStripStr(SubSeq(str, 2, Len(str))) ELSE str

RECURSIVE RStripStr(_)
RStripStr(str) ==
    IF Len(str) > 0 /\ CharAt(str, Len(str)) \in WhitespaceChars
    THEN RStripStr(SubSeq(str, 1, Len(str) - 1)) ELSE str

StripStr(str) == LStripStr(RStripStr(str))

\* One cell of the content-analysis row: the stripped url u, fetch_content
\* returning c, the service answering v.
AnalysisCell(link_col, u, c, v) ==
    IF u = "" THEN [result |-> A_NoURL, calls |-> <<>>]
    ELSE IF IsEmptyContent(c) THEN [result |-> A_NoContent, calls |-> <<>>]
    ELSE AnalyzeWithOllama(link_col, c, v)

\* What `ollama run` does
RunAnswers == {"yes", "no", "other", "timeout", "exception"}

\* Mutant of AnalyzeContent: the guard on empty content dropped.
AnalyzeContentUnguarded(c, link_type, answer) ==
    [result |-> IF answer = "yes" THEN "Yes" ELSE "No",
     calls |-> <<[service |-> "ollama run", link_type |-> link_type, chunk |-> 1]>>]

\* OllamaAnalyzer.analyze_content(content, link_type, question)
AnalyzeContent(c, link_type, answer) ==
    IF IsEmptyContent(c) \/ c.blank THEN [result |-> "No", calls |-> <<>>]
    ELSE [result |-> IF answer = "yes" THEN "Yes" ELSE "No",
          calls |-> <<[service |-> "ollama run", link_type |-> link_type, chunk |-> 1]>>]

LinkColumns ==
    <<"Homepage", "Privacy/Legal Link", "DSGVO/GDPR Link", "Storage/Hosting Link",
      "DPA/AVV Link">>

\* The calls made
ContentArgs ==
    [fn : {"analyze_with_ollama", "analyze_content"},
     link_type : {LinkColumns[i] : i \in 1..Len(LinkColumns)},
     url : {""}]
    \cup
    [fn : {"analysis_cell"},
     link_type : {LinkColumns[i] : i \in 1..Len(LinkColumns)},
     url : {"", " ", " https://x.com "}]

InitContent ==
    /\ pc = "start"
    /\ url = <<>>
    /\ sent = <<>>
    /\ response = 0
    /\ result = NoResult
    /\ propagated = FALSE
    /\ html_content = <<>>
    /\ base_url = <<>>
    /\ links = <<>>
    /\ seen = {}
    /\ unique_links = <<>>
    /\ probes = <<>>
    /\ selected = NoSelection
    /\ InitResearchIdle
    /\ InitBatchIdle
    /\ args \in ContentArgs
    /\ content \in IF args.fn = "analysis_cell" THEN {NoContent} ELSE Contents

UnchangedContentCall ==
    /\ UNCHANGED <<url, sent, response, result, propagated,
                   html_content, base_url, links, seen, unique_links>>
    /\ UnchangedSelect
    /\ UNCHANGED <<row, original_row, homepage, guesses, found_links, field_idx,
                   checks, changes_made, details>>
    /\ UNCHANGED <<idx, output_rows, writes, col_idx>>

CallAnalyzeWithOllama ==
    /\ pc = "start"
    /\ args.fn = "analyze_with_ollama"
    /\ \E v \in [1..NumChunks(content) -> OllamaAnswers] :
        /\ returned' = [returned |-> TRUE, value |-> AnalyzeWithOllama(args.link_type, content, v).result]
        /\ calls' = calls \o AnalyzeWithOllama(args.link_type, content, v).calls
    /\ pc' = "analyze_done"
    /\ UNCHANGED content
    /\ UnchangedContentCall

CallAnalyzeContent ==
    /\ pc = "start"
    /\ args.fn = "analyze_content"
    /\ \E answer \in RunAnswers :
        /\ returned' = [returned |-> TRUE, value |-> AnalyzeContent(content, args.link_type, answer).result]
        /\ calls' = calls \o AnalyzeContent(content, args.link_type, answer).calls
    /\ pc' = "analyze_content_done"
    /\ UNCHANGED content
    /\ UnchangedContentCall

\* One cell of the content-analysis row; `content` is bound only when the
\* url is not empty.
CallAnalysisCell ==
    /\ pc = "start"
    /\ args.fn = "analysis_cell"
    /\ \E c \in FetchedContents :
        \E v \in [1..NumChunks(c) -> OllamaAnswers] :
            /\ content' = IF StripStr(args.url) = "" THEN content ELSE c
            /\ returned' = [returned |-> TRUE,
                            value |-> AnalysisCell(args.link_type, StripStr(args.url), c, v).result]
            /\ calls' = calls \o AnalysisCell(args.link_type, StripStr(args.url), c, v).calls
    /\ pc' = "cell_done"
    /\ UnchangedContentCall

NextContent == CallAnalyzeWithOllama \/ CallAnalyzeContent \/ CallAnalysisCell

SpecContent == InitContent /\ [][NextContent]_vars

\* C23: when the content fetched for a link is empty the result is the
\* "No content" label (analyze_content: "No") and no request has been sent to
\* the completion service.
C23_EmptyContentNoRequest ==
    /\ (pc = "cell_done" /\ content # NoContent /\ IsEmptyContent(content)) =>
          returned.value = A_NoContent /\ calls = <<>>
    /\ (pc = "analyze_done" /\ IsEmptyContent(content)) =>
          returned.value = A_NoContent /\ calls = <<>>
    /\ (pc = "analyze_content_done" /\ IsEmptyContent(content)) =>
          returned.value = "No" /\ calls = <<>>

\* C23 witness: a cell with a url whose fetched content was empty.
C23_Witness ==
    /\ pc = "cell_done"
    /\ StripStr(args.url) # ""
    /\ content # NoContent
    /\ IsEmptyContent(content)
    /\ returned.value = A_NoContent

(***************************************************************************)
(* LinkChecker.process (link_checker.py:88-183) and                        *)
(* CompleteAnalyzer.process (complete_analyzer.py:251-375) over a CSV with *)
(* the header "App name;Homepage".                                         *)
(***************************************************************************)

\* The value csv.DictReader gives a cell missing from a short row (None)
NoneCell == "<None>"

CellValues == {"", "https://x.com", NoneCell}

\* The rows read from the file: row i is named by its line number
RowLists ==
    UNION {{[i \in 1..n |-> [name |-> "T" \o IntStr(i), Homepage |-> v[i]]] :
                v \in [1..n -> CellValues]} : n \in 0..MaxRows}

Min(a, b) == IF a < b THEN a ELSE b

\* rows[:k]
Take(rows, k) == SubSeq(rows, 1, Min(k, Len(rows)))

\* rows[k:]
Drop(rows, k) == SubSeq(rows, k + 1, Len(rows))

\* `end_line if end_line else total`, then min(end_line, total); 0 stands for None
EndIdx(end_line, total) == Min(IF end_line # 0 THEN end_line ELSE total, total)

\* start_line - 1
StartIdx(start_line) == start_line - 1

\* Mutant of ExtendRows: the new rows put in front.
ExtendRowsFront(out, more) == more \o out

\* output_rows.extend(more) / output_rows.append(row)
ExtendRows(out, more) == out \o more

\* The labels check_link gives a non-empty url
CheckLabels == {"U+2705 Valid (HTTP 200)", "U+274C Not found (HTTP 404)"}

ProcessArgs ==
    [fn : {"LinkChecker.process", "CompleteAnalyzer.process"},
     rows : RowLists,
     start_line : 1..(MaxRows + 1),
     end_line : 0..(MaxRows + 1)]

InitProcess ==
    /\ pc = "start"
    /\ url = <<>>
    /\ sent = <<>>
    /\ response = 0
    /\ result = NoResult
    /\ content = NoContent
    /\ propagated = FALSE
    /\ html_content = <<>>
    /\ base_url = <<>>
    /\ links = <<>>
    /\ seen = {}
    /\ unique_links = <<>>
    /\ probes = <<>>
    /\ selected = NoSelection
    /\ InitResearchIdle
    /\ InitBatchIdle
    /\ args \in ProcessArgs

UnchangedProcess ==
    /\ UNCHANGED <<url, sent, response, result, content,
                   html_content, base_url, links, seen, unique_links>>
    /\ UnchangedSelect
    /\ UnchangedResearch
    /\ UNCHANGED col_idx

\* `output_rows.extend(rows[:start_idx])`
ProcessStart ==
    /\ pc = "start"
    /\ args.fn \in {"LinkChecker.process", "CompleteAnalyzer.process"}
    /\ idx' = StartIdx(args.start_line)
    /\ output_rows' = ExtendRows(output_rows, Take(args.rows, StartIdx(args.start_line)))
    /\ pc' = "process_loop"
    /\ UNCHANGED <<writes, calls, propagated>>
    /\ UnchangedProcess

\* One turn of LinkChecker.process's `for idx in range(start_idx, end_idx)`.
CheckRow ==
    /\ pc = "process_loop"
    /\ args.fn = "LinkChecker.process"
    /\ idx < EndIdx(args.end_line, Len(args.rows))
    /\ LET orig_row == args.rows[idx + 1]
       IN  IF orig_row.Homepage = NoneCell
           THEN /\ pc' = "process_raised"
                /\ propagated' = TRUE
                /\ UNCHANGED <<idx, output_rows>>
           ELSE \E label \in CheckLabels :
                LET reason == IF StripStr(orig_row.Homepage) = ""
                              THEN A_NoURL ELSE label
                    explanation_row == [name |-> "[LINK CHECK RESULTS]", Homepage |-> reason]
                IN  /\ output_rows' = ExtendRows(output_rows, <<orig_row, explanation_row>>)
                    /\ idx' = idx + 1
                    /\ UNCHANGED <<pc, propagated>>
    /\ UNCHANGED <<writes, calls>>
    /\ UnchangedProcess

\* One turn of CompleteAnalyzer.process's loop, with its write of the file.
AnalyzeRow ==
    /\ pc = "process_loop"
    /\ args.fn = "CompleteAnalyzer.process"
    /\ idx < EndIdx(args.end_line, Len(args.rows))
    /\ LET orig_row == args.rows[idx + 1]
       IN  IF orig_row.Homepage = NoneCell
           THEN /\ pc' = "process_raised"
                /\ propagated' = TRUE
                /\ output_rows' = ExtendRows(output_rows, <<orig_row>>)
                /\ UNCHANGED <<idx, writes, calls>>
           ELSE \E label \in CheckLabels, c \in FetchedContents :
                \E v \in [1..NumChunks(c) -> OllamaAnswers] :
                LET u == StripStr(orig_row.Homepage)
                    link_check_row == [name |-> "[LINK CHECK]",
                                       Homepage |-> IF u = "" THEN "U+26A0 Empty" ELSE label]
                    cell == AnalysisCell("Homepage", u, c, v)
                    analysis_row == [name |-> "[CONTENT ANALYSIS]", Homepage |-> cell.result]
                IN  /\ output_rows' = ExtendRows(output_rows,
                                          <<orig_row, link_check_row, analysis_row>>)
                    /\ calls' = calls \o cell.calls
                    /\ writes' = Append(writes, output_rows')
                    /\ idx' = idx + 1
                    /\ UNCHANGED <<pc, propagated>>
    /\ UnchangedProcess

\* After the loop: the rows behind the range, then the write of the file.
ProcessFinish ==
    /\ pc = "process_loop"
    /\ idx >= EndIdx(args.end_line, Len(args.rows))
    /\ output_rows' = IF EndIdx(args.end_line, Len(args.rows)) < Len(args.rows)
                      THEN ExtendRows(output_rows,
                                      Drop(args.rows, EndIdx(args.end_line, Len(args.rows))))
                      ELSE output_rows
    /\ writes' = Append(writes, output_rows')
    /\ pc' = "process_done"
    /\ UNCHANGED <<idx, calls, propagated>>
    /\ UnchangedProcess

NextProcess == ProcessStart \/ CheckRow \/ AnalyzeRow \/ ProcessFinish

SpecProcess == InitProcess /\ [][NextProcess]_vars

\* The rows of a result kind
IsResultRow(r) == r.name = "[LINK CHECK RESULTS]"
IsInputRow(r) == ~IsResultRow(r)

\* Number of rows of the processing range
Processed == IF args.start_line - 1 < EndIdx(args.end_line, Len(args.rows))
             THEN EndIdx(args.end_line, Len(args.rows)) - (args.start_line - 1)
             ELSE 0

\* C24: LinkChecker.process gives every processed tool exactly one result
\* row, right after its original row, and for every start_line >= 1 and
\* every end_line each input row occurs once in the output, in input order.
C24_OneResultRowAndEveryRowOnce ==
    (pc = "process_done" /\ args.fn = "LinkChecker.process") =>
        /\ SelectSeq(output_rows, IsInputRow) = args.rows
        /\ Len(SelectSeq(output_rows, IsResultRow)) = Processed
        /\ \A k \in 1..Len(output_rows) :
              IsResultRow(output_rows[k]) => k > 1 /\ IsInputRow(output_rows[k - 1])

\* s is a prefix of t
IsPrefix(s, t) == Len(s) <= Len(t) /\ SubSeq(t, 1, Len(s)) = s

\* C27: every write of CompleteAnalyzer.process has the rows of the previous
\* write as a prefix.
C27_WritesOnlyAppend ==
    args.fn = "CompleteAnalyzer.process" =>
        \A i \in 1..(Len(writes) - 1) : IsPrefix(writes[i], writes[i + 1])

\* C27 witness: a write after a processed tool, then a final write that
\* added the rows behind the range.
C27_Witness ==
    /\ args.fn = "CompleteAnalyzer.process"
    /\ pc = "process_done"
    /\ Len(writes) = 2
    /\ Len(writes[1]) = 3
    /\ Len(writes[2]) = 4

(***************************************************************************)
(* CSVProcessor.process_tool (complete_validator.py:212-264)               *)
(***************************************************************************)

\* headers.index(name), 0-based; only asked for a name in headers
HeaderIndex(headers, name) ==
    (CHOOSE i \in 1..Len(headers) :
        headers[i] = name /\ \A j \in 1..(i - 1) : headers[j] # name) - 1

InHeaders(headers, name) == \E i \in 1..Len(headers) : headers[i] = name

\* LinkValidator.format_status(status_code); 0 stands for None
FormatStatus(status_code) ==
    CASE status_code = 0 -> "U+274C Not accessible"
      [] status_code = 200 -> "U+2705 Valid (HTTP 200)"
      [] status_code = 403 -> "U+2705 Valid (HTTP 403 - blocked)"
      [] status_code = 404 -> "U+274C Not found (HTTP 404)"
      [] status_code >= 200 /\ status_code < 300 ->
            "U+2705 Valid (HTTP " \o IntStr(status_code) \o ")"
      [] status_code >= 300 /\ status_code < 400 ->
            "U+26A0 Redirect (HTTP " \o IntStr(status_code) \o ")"
      [] status_code >= 400 /\ status_code < 500 ->
            "U+274C Client error (HTTP " \o IntStr(status_code) \o ")"
      [] OTHER -> "U+274C Server error (HTTP " \o IntStr(status_code) \o ")"

\* LinkValidator.validate_url(url): the (status_code, content) pairs it can
\* return; status 0 stands for None, content of length 0 with none = TRUE
\* for None
NoText == [len |-> 0, blank |-> TRUE]

ToolValidateResults(u) ==
    IF IsBlank(u) THEN {[status |-> 0, text |-> NoText]}
    ELSE {[status |-> 200, text |-> c] : c \in {t \in Contents : t.len <= 51}}
         \cup {[status |-> st, text |-> NoText] : st \in {0, 404}}

ToolHeaders ==
    { <<"App name">> \o LinkColumns,
      <<"App name", "Homepage", "DSGVO/GDPR Link", "Storage/Hosting Link", "DPA/AVV Link">>,
      <<"App name", "Privacy/Legal Link">>,
      <<"App name">>,
      <<"Kategorie", "Homepage">> }

\* Data rows as csv.reader gives them: any number of cells up to the header's
ToolRows(headers) ==
    {[i \in 1..n |-> IF i = 1 THEN "T1" ELSE cell] :
        n \in 0..Len(headers), cell \in {"", "https://x.com"}}

ToolArgs ==
    UNION {[fn : {"process_tool"}, headers : {h}, row : ToolRows(h),
            ollama_available : BOOLEAN] : h \in ToolHeaders}

InitTool ==
    /\ pc = "start"
    /\ url = <<>>
    /\ sent = <<>>
    /\ response = 0
    /\ result = NoResult
    /\ content = NoContent
    /\ propagated = FALSE
    /\ html_content = <<>>
    /\ base_url = <<>>
    /\ links = <<>>
    /\ seen = {}
    /\ unique_links = <<>>
    /\ probes = <<>>
    /\ selected = NoSelection
    /\ InitResearchIdle
    /\ InitBatchIdle
    /\ args \in ToolArgs

UnchangedTool ==
    /\ UNCHANGED <<url, sent, response, result, content,
                   html_content, base_url, links, seen, unique_links>>
    /\ UnchangedSelect
    /\ UNCHANGED <<original_row, homepage, guesses, found_links, field_idx,
                   checks, changes_made, details, returned>>
    /\ UNCHANGED <<writes, calls>>

\* row[col_idx] if col_idx < len(row) else ""
CellOrEmpty(r, c) == IF c < Len(r) THEN r[c + 1] ELSE ""

\* Rows 1 and 2 begun: the original appended, validation_row = row.copy()
\* with "[LINK CHECK]" in the "App name" cell. `row` holds the copy at work.
ToolStart ==
    /\ pc = "start"
    /\ args.fn = "process_tool"
    /\ output_rows' = <<args.row>>
    /\ IF ~InHeaders(args.headers, "App name")
          \/ HeaderIndex(args.headers, "App name") >= Len(args.row)
       THEN /\ pc' = "tool_raised"
            /\ propagated' = TRUE
            /\ UNCHANGED <<row, idx>>
       ELSE /\ row' = [args.row EXCEPT
                          ![HeaderIndex(args.headers, "App name") + 1] = "[LINK CHECK]"]
            /\ idx' = 1
            /\ pc' = "validation"
            /\ UNCHANGED propagated
    /\ UNCHANGED col_idx
    /\ UnchangedTool

\* One turn of the validation loop; an exception is logged and the loop goes on
ToolValidateLink ==
    /\ pc = "validation"
    /\ idx <= Len(LinkColumns)
    /\ LET link_type == LinkColumns[idx]
       IN  IF ~InHeaders(args.headers, link_type)
           THEN UNCHANGED <<col_idx, row>>
           ELSE /\ col_idx' = HeaderIndex(args.headers, link_type)
                /\ \E r \in ToolValidateResults(CellOrEmpty(args.row, col_idx')) :
                     row' = IF col_idx' < Len(row)
                            THEN [row EXCEPT ![col_idx' + 1] = FormatStatus(r.status)]
                            ELSE row
    /\ idx' = idx + 1
    /\ UNCHANGED <<pc, propagated, output_rows>>
    /\ UnchangedTool

\* validation_row appended; analysis_row begun if Ollama is available
ToolValidationDone ==
    /\ pc = "validation"
    /\ idx > Len(LinkColumns)
    /\ output_rows' = Append(output_rows, row)
    /\ IF args.ollama_available
       THEN /\ row' = [args.row EXCEPT
                          ![HeaderIndex(args.headers, "App name") + 1] = "[CONTENT ANALYSIS]"]
            /\ idx' = 1
            /\ pc' = "analysis"
       ELSE /\ pc' = "tool_done"
            /\ UNCHANGED <<row, idx>>
    /\ UNCHANGED <<col_idx, propagated>>
    /\ UnchangedTool

\* One turn of the analysis loop; its handler writes "Error" at col_idx
ToolAnalyzeLink ==
    /\ pc = "analysis"
    /\ idx <= Len(LinkColumns)
    /\ LET link_type == LinkColumns[idx]
       IN  IF ~InHeaders(args.headers, link_type)
           THEN \* headers.index raised: col_idx is the one left by an earlier turn
                IF col_idx = -1 \/ col_idx >= Len(row)
                THEN /\ pc' = "tool_raised"
                     /\ propagated' = TRUE
                     /\ UNCHANGED <<row, idx, col_idx>>
                ELSE /\ row' = [row EXCEPT ![col_idx + 1] = "Error"]
                     /\ idx' = idx + 1
                     /\ UNCHANGED <<pc, propagated, col_idx>>
           ELSE /\ col_idx' = HeaderIndex(args.headers, link_type)
                /\ IF col_idx' >= Len(row)
                   THEN \* the cell assignment raised, and so does the handler's
                        /\ pc' = "tool_raised"
                        /\ propagated' = TRUE
                        /\ UNCHANGED <<row, idx>>
                   ELSE /\ \E r \in ToolValidateResults(CellOrEmpty(args.row, col_idx')),
                              answer \in RunAnswers :
                            row' = [row EXCEPT ![col_idx' + 1] =
                                       IF ~IsEmptyContent(r.text)
                                       THEN AnalyzeContent(r.text, link_type, answer).result
                                       ELSE "N/A"]
                        /\ idx' = idx + 1
                        /\ UNCHANGED <<pc, propagated>>
    /\ UNCHANGED output_rows
    /\ UnchangedTool

\* analysis_row appended, output_rows returned
ToolAnalysisDone ==
    /\ pc = "analysis"
    /\ idx > Len(LinkColumns)
    /\ output_rows' = Append(output_rows, row)
    /\ pc' = "tool_done"
    /\ UNCHANGED <<row, idx, col_idx, propagated>>
    /\ UnchangedTool

NextTool ==
    \/ ToolStart
    \/ ToolValidateLink
    \/ ToolValidationDone
    \/ ToolAnalyzeLink
    \/ ToolAnalysisDone

SpecTool == InitTool /\ [][NextTool]_vars

\* Handling link_type raised an exception: its column is missing from the
\* header or lies beyond the row's cells
LinkErrored(link_type) ==
    \/ ~InHeaders(args.headers, link_type)
    \/ HeaderIndex(args.headers, link_type) >= Len(args.row)

\* C25: process_tool returns without raising for any data row (short rows,
\* headers missing a link column included), its first returned row is the
\* original row, and "Error" is written only in the column of the link
\* whose handling raised.
C25_NeverRaisesErrorInOwnColumn ==
    args.fn = "process_tool" =>
        /\ pc # "tool_raised"
        /\ pc = "tool_done" =>
              /\ output_rows[1] = args.row
              /\ \A k \in 2..Len(output_rows) : \A p \in 1..Len(output_rows[k]) :
                    output_rows[k][p] = "Error" => LinkErrored(args.headers[p])

====
